---------------------------- MODULE Spec2Model ----------------------------
(***************************************************************************)
(* A model of the Lector utilities:                                        *)
(*   - the static analysers (src/src/analyzer.py, src/src/code_analysis.py)*)
(*   - the JSON store merge and the line-range file helpers                *)
(*     (src/src/manager_files.py)                                          *)
(*   - the Gemini clients (src/src/llm_api.py, src/src/gemini_api.py)      *)
(*   - the File object (src/src/file_manager.py)                           *)
(* Each subsystem has its own specification over the shared variables.     *)
(***************************************************************************)
EXTENDS Integers, Sequences, FiniteSets, TLC

VARIABLES
    source,     \* analysers: the source text handed to the entry points
    call,       \* analysers: the last entry point called and what it did
    jfile,      \* JSON store: the file at the store's path
    jcall,      \* JSON store: the last call on the store and what it did
    rinv,       \* JSON store: the two concurrent invocations
    roverlap,   \* JSON store: whether the two invocations overlapped in time
    ffile,      \* line-range helpers: the text file at the helpers' path
    fcall,      \* line-range helpers: the last helper called and what it did
    lenv,       \* Gemini clients: the GEMINI_API_KEY environment variable
    lnet,       \* Gemini clients: what the network does with a posted request
    lcall,      \* Gemini clients: the last client called and what it did
    ocontenido, \* File object: its attribute 'contenido'
    ocall,      \* File object: the last method that ended and what it did
    owait       \* File object: the calls under way, each where it stands

aVars == <<source, call>>
jVars == <<jfile, jcall>>
rVars == <<rinv, roverlap>>
fVars == <<ffile, fcall>>
lVars == <<lenv, lnet, lcall>>
oVars == <<ocontenido, ocall, owait>>
vars == <<aVars, jVars, rVars, fVars, lVars, oVars>>

\* Python's None, and a present optional value.
None == <<>>
Some(x) == <<x>>

Max2(a, b) == IF a > b THEN a ELSE b

(***************************************************************************)
(* Source texts, as the syntax trees ast.parse builds from them            *)
(***************************************************************************)
MaxNodes == 3       \* statements of interest in one source text

FuncNames == {"f", "g"}
\* The positional parameters a function may declare, in declaration order.
ParamOrder == <<"a", "b">>

NameExpr(id) == [kind |-> "Name", id |-> id]
AttributeExpr(value, attr) == [kind |-> "Attribute", value |-> value, attr |-> attr]

\* One parameter: ast.arg(arg, annotation).
ArgOf(name, annotation) == [arg |-> name, annotation |-> annotation]

\* The parameters a, b, ... without annotation, n of them, in declaration order.
PlainArgs(n) == [i \in 1..n |-> ArgOf(ParamOrder[i], None)]

\* ast.arguments: args holds the positional-or-keyword parameters only.
ArgumentsOf(args, kwonlyargs) ==
    [posonlyargs |-> <<>>, args |-> args, vararg |-> None,
     kwonlyargs |-> kwonlyargs, kwarg |-> None]

\* def f(), def f(a), def f(a, b), and def f(a, *, k) with a keyword-only k.
ArgumentOptions ==
    { ArgumentsOf(PlainArgs(n), <<>>) : n \in 0..Len(ParamOrder) }
    \cup { ArgumentsOf(PlainArgs(1), <<ArgOf("k", None)>>) }

FunctionDefOf(name, args, returns, doc, body) ==
    [kind |-> "FunctionDef", name |-> name, args |-> args, returns |-> returns,
     doc |-> doc, body |-> body]
ClassDefOf(name, bases, body) ==
    [kind |-> "ClassDef", name |-> name, bases |-> bases, body |-> body]
AssignOf(targets) == [kind |-> "Assign", targets |-> targets]
\* if ...: body, else: orelse.  An elif is an If that is alone in orelse.
IfOf(body, orelse) == [kind |-> "If", body |-> body, orelse |-> orelse]
\* for ... in ...: body.
ForOf(body) == [kind |-> "For", body |-> body]
\* try: body, followed by its except clauses.
TryOf(body, handlers) == [kind |-> "Try", body |-> body, handlers |-> handlers]
\* except: body, a node of its own under the Try.
ExceptHandlerOf(body) == [kind |-> "ExceptHandler", body |-> body]

\* What the text gives one function definition: its name and its parameters.
FunctionOptions == [name : FuncNames, args : ArgumentOptions]

\* ast.iter_child_nodes, restricted to the nodes that can hold a definition:
\* the fields of a node in their declared order.
Children(node) ==
    CASE node.kind = "Assign" -> <<>>
      [] node.kind = "If" -> node.body \o node.orelse
      [] node.kind = "Try" -> node.body \o node.handlers
      [] OTHER -> node.body

\* Statement skeletons (the kinds and the nesting) made of n nodes; forests[k]
\* holds the statement lists of k nodes, k < n.  An if or a try shares its
\* n - 1 inner nodes between its two blocks.
SkeletonsOf(n, forests) ==
    (IF n = 1 THEN {[kind |-> "Assign"]} ELSE {})
    \cup { [kind |-> k, body |-> b] : k \in {"FunctionDef", "ClassDef"}, b \in forests[n - 1] }
    \cup (IF n = 1 THEN {}
          ELSE { [kind |-> "For", body |-> b] : b \in forests[n - 1] }
               \cup UNION { { [kind |-> "If", body |-> b, orelse |-> o] :
                                 b \in forests[k], o \in forests[n - 1 - k] } :
                             k \in 0..(n - 1) }
               \cup UNION { { [kind |-> "Try", body |-> b,
                               handlers |-> <<[kind |-> "ExceptHandler", body |-> h]>>] :
                                 b \in forests[k], h \in forests[n - 1 - k] } :
                             k \in 0..(n - 1) })

\* The skeletons of the statement lists made of exactly n nodes.
SkeletonForests[n \in 0..MaxNodes] ==
    IF n = 0 THEN {<<>>}
    ELSE UNION { { <<t>> \o rest :
                     t \in SkeletonsOf(k, [i \in 0..(k - 1) |-> SkeletonForests[i]]),
                     rest \in SkeletonForests[n - k] } : k \in 1..n }

RECURSIVE CountDefs(_)
\* The function definitions of a skeleton list, nested ones included.
CountDefs(body) ==
    IF body = <<>> THEN 0
    ELSE (IF Head(body).kind = "FunctionDef" THEN 1 ELSE 0)
         + CountDefs(Children(Head(body)))
         + CountDefs(Tail(body))

RECURSIVE Fill(_, _, _)
\* The statements of a skeleton list, its function definitions taking their
\* names and parameters from opts[next], opts[next + 1], ... in textual order.
Fill(body, opts, next) ==
    IF body = <<>> THEN <<>>
    ELSE LET s == Head(body)
             own == IF s.kind = "FunctionDef" THEN 1 ELSE 0
             inner == IF s.kind = "Assign" THEN <<>> ELSE Fill(s.body, opts, next + own)
             after == next + own + (IF s.kind = "Assign" THEN 0 ELSE CountDefs(s.body))
             used == own + CountDefs(Children(s))
             node ==
                 CASE s.kind = "FunctionDef" ->
                        FunctionDefOf(opts[next].name, opts[next].args, None, None, inner)
                   [] s.kind = "ClassDef" -> ClassDefOf("C", <<>>, inner)
                   [] s.kind = "For" -> ForOf(inner)
                   [] s.kind = "If" -> IfOf(inner, Fill(s.orelse, opts, after))
                   [] s.kind = "Try" -> TryOf(inner, Fill(s.handlers, opts, after))
                   [] s.kind = "ExceptHandler" -> ExceptHandlerOf(inner)
                   [] OTHER -> AssignOf(<<NameExpr("x")>>)
         IN <<node>> \o Fill(Tail(body), opts, next + used)

\* A source text that parses, as the statement list of its module.
TextOf(body) == [parse |-> "ok", body |-> body]
\* A source text ast.parse rejects, with the exception it raises.
BadText(e) == [parse |-> e, body |-> <<>>]
ParseErrors == {"SyntaxError", "RecursionError"}

(***************************************************************************)
(* ast.parse: the tree with the line numbers of its statements             *)
(***************************************************************************)
DocLines(s) == IF s.kind = "FunctionDef" /\ s.doc # None THEN 1 ELSE 0

\* The else part of the if is written as elif: it is one if and nothing else.
IsElif(s) == Len(s.orelse) = 1 /\ s.orelse[1].kind = "If"

RECURSIVE StmtLines(_), BodyLines(_)
\* Lines a node spans: its header, its docstring, its block (pass if empty),
\* and the clauses that follow (else: and its block, an elif, the except
\* clauses).
StmtLines(s) ==
    CASE s.kind = "Assign" -> 1
      [] s.kind = "FunctionDef" -> 1 + Max2(1, DocLines(s) + BodyLines(s.body))
      [] s.kind = "If" ->
           1 + Max2(1, BodyLines(s.body))
           + (IF s.orelse = <<>> THEN 0
              ELSE IF IsElif(s) THEN StmtLines(s.orelse[1])
              ELSE 1 + BodyLines(s.orelse))
      [] s.kind = "Try" -> 1 + Max2(1, BodyLines(s.body)) + BodyLines(s.handlers)
      [] OTHER -> 1 + Max2(1, BodyLines(s.body))
BodyLines(body) ==
    IF body = <<>> THEN 0 ELSE StmtLines(Head(body)) + BodyLines(Tail(body))

RECURSIVE Locate(_, _)
\* The nodes of body, the first starting on line `line`, with lineno and
\* end_lineno.
Locate(body, line) ==
    IF body = <<>> THEN <<>>
    ELSE LET s == Head(body)
             last == line + StmtLines(s) - 1
             inner == IF s.kind = "Assign" THEN <<>>
                      ELSE Locate(s.body, line + 1 + DocLines(s))
             \* the line after the first block
             next == IF s.kind = "Assign" THEN line + 1
                     ELSE line + 1 + Max2(1, BodyLines(s.body))
             node ==
                 CASE s.kind = "FunctionDef" ->
                        [kind |-> "FunctionDef", name |-> s.name, args |-> s.args,
                         returns |-> s.returns, doc |-> s.doc, body |-> inner,
                         lineno |-> line, end_lineno |-> last]
                   [] s.kind = "ClassDef" ->
                        [kind |-> "ClassDef", name |-> s.name, bases |-> s.bases,
                         body |-> inner, lineno |-> line, end_lineno |-> last]
                   [] s.kind = "If" ->
                        [kind |-> "If", body |-> inner,
                         orelse |-> IF s.orelse = <<>> THEN <<>>
                                    ELSE IF IsElif(s) THEN Locate(s.orelse, next)
                                    ELSE Locate(s.orelse, next + 1),
                         lineno |-> line, end_lineno |-> last]
                   [] s.kind = "Try" ->
                        [kind |-> "Try", body |-> inner,
                         handlers |-> Locate(s.handlers, next),
                         lineno |-> line, end_lineno |-> last]
                   [] s.kind = "Assign" ->
                        [kind |-> "Assign", targets |-> s.targets,
                         lineno |-> line, end_lineno |-> last]
                   [] OTHER ->
                        [kind |-> s.kind, body |-> inner,
                         lineno |-> line, end_lineno |-> last]
         IN <<node>> \o Locate(Tail(body), last + 1)

\* ast.parse(source_code) of a text that parses.
Parse(src) == [kind |-> "Module", body |-> Locate(src.body, 1)]

RECURSIVE WalkDepthFirst(_)
\* A depth-first, pre-order traversal, which ast.walk is not.
WalkDepthFirst(todo) ==
    IF todo = <<>> THEN <<>>
    ELSE <<Head(todo)>> \o WalkDepthFirst(Children(Head(todo)) \o Tail(todo))
WalkPreorder(tree) == WalkDepthFirst(<<tree>>)

RECURSIVE WalkFrom(_)
\* ast.walk: breadth first, from a queue of nodes still to visit.
WalkFrom(todo) ==
    IF todo = <<>> THEN <<>>
    ELSE <<Head(todo)>> \o WalkFrom(Tail(todo) \o Children(Head(todo)))
Walk(tree) == WalkFrom(<<tree>>)

\* ast.unparse of an annotation or base expression.
Unparse(e) == IF e.kind = "Name" THEN e.id ELSE e.value \o "." \o e.attr


(***************************************************************************)
(* The signature extractors                                                *)
(***************************************************************************)
\* A docstring is the sequence of its words: ":param", a word "<name>:" with
\* whatever is glued to the colon ("a:" or "a:int"), or any other word.
ParamWord == [kind |-> "param"]
NameWord(name, glued) == [kind |-> "name", name |-> name, glued |-> glued]
PlainWord(text) == [kind |-> "plain", text |-> text]
WordText(w) ==
    CASE w.kind = "param" -> ":param"
      [] w.kind = "name" -> w.name \o ":" \o w.glued
      [] OTHER -> w.text

RECURSIVE SearchParam(_, _, _)
\* re.search(":param <name>:\s*([^\s]+)", docstring) from word i on: the first
\* ":param <name>:" that something follows, and the group it captures (what is
\* glued to the colon, else the whole next word).
SearchParam(words, name, i) ==
    IF i + 1 > Len(words) THEN None
    ELSE IF /\ words[i] = ParamWord
            /\ words[i + 1].kind = "name"
            /\ words[i + 1].name = name
            /\ (words[i + 1].glued # "" \/ i + 2 <= Len(words))
         THEN IF words[i + 1].glued # "" THEN Some(words[i + 1].glued)
              ELSE Some(WordText(words[i + 2]))
         ELSE SearchParam(words, name, i + 1)

\* match.group(1) of the parameter's pattern in the docstring, if it matches.
DocParamType(doc, name) == SearchParam(doc[1], name, 1)

\* A variant that asks the docstring first and the annotation second.
ParamTypeDocFirst(node, arg) ==
    IF node.doc # None /\ DocParamType(node.doc, arg.arg) # None
    THEN DocParamType(node.doc, arg.arg)[1]
    ELSE IF arg.annotation # None THEN Unparse(arg.annotation[1])
         ELSE "unknown"

\* The type of one parameter in analyze and analizar_codigo: the annotation,
\* else the docstring's tag, else 'unknown'.
ParamType(node, arg) ==
    IF arg.annotation # None THEN Unparse(arg.annotation[1])
    ELSE IF node.doc # None /\ DocParamType(node.doc, arg.arg) # None
         THEN DocParamType(node.doc, arg.arg)[1]
         ELSE "unknown"

\* f'{param_name} ({param_type})'
ParamText(name, type) == name \o " (" \o type \o ")"

\* return_type of analyze and analizar_codigo.
ReturnType(node) == IF node.returns # None THEN Unparse(node.returns[1]) ELSE "None"

FunctionInfo(node, params) ==
    [nombre |-> node.name, linea_inicio |-> node.lineno,
     linea_fin |-> node.end_lineno, parametros |-> params,
     tipo_retorno |-> ReturnType(node)]

\* The locals param_name and param_type of analyze after the loop over
\* node.args.args: those of the last parameter, or what they were before.
LastParam(node, before) ==
    LET args == node.args.args
    IN IF args = <<>> THEN before
       ELSE Some(<<args[Len(args)].arg, ParamType(node, args[Len(args)])>>)

\* The one params.append of analyze, after the loop: it reads the locals, which
\* are unbound when no parameter has been seen yet.
AnalyzeParams(bound) == <<ParamText(bound[1][1], bound[1][2])>>

RECURSIVE AnalyzeLoop(_, _, _)
\* The loop of PythonAnalyzer.analyze over ast.walk(module); `bound` is the
\* state of the locals param_name / param_type.
AnalyzeLoop(nodes, data, bound) ==
    IF nodes = <<>> THEN [exc |-> "none", data |-> data]
    ELSE LET node == Head(nodes) IN
         IF node.kind # "FunctionDef" THEN AnalyzeLoop(Tail(nodes), data, bound)
         ELSE LET now == LastParam(node, bound) IN
              IF now = None THEN [exc |-> "UnboundLocalError", data |-> data]
              ELSE AnalyzeLoop(Tail(nodes),
                               Append(data, FunctionInfo(node, AnalyzeParams(now))),
                               now)

\* analyze without its `except Exception` clause: the error escapes.
AnalyzeUncaught(src) ==
    IF src.parse = "SyntaxError"
    THEN [outcome |-> "return", value |-> [NombreArchivo |-> <<>>], logged |-> src.parse]
    ELSE IF src.parse # "ok"
    THEN [outcome |-> "raise", value |-> src.parse, logged |-> "none"]
    ELSE LET run == AnalyzeLoop(Walk(Parse(src)), <<>>, None) IN
         IF run.exc # "none"
         THEN [outcome |-> "raise", value |-> run.exc, logged |-> "none"]
         ELSE [outcome |-> "return", value |-> [NombreArchivo |-> run.data],
               logged |-> "none"]

\* PythonAnalyzer.analyze(source_code): what it returns and what it logs.
Analyze(src) ==
    IF src.parse # "ok"
    THEN [outcome |-> "return", value |-> [NombreArchivo |-> <<>>], logged |-> src.parse]
    ELSE LET run == AnalyzeLoop(Walk(Parse(src)), <<>>, None) IN
         IF run.exc # "none"
         THEN [outcome |-> "return", value |-> [NombreArchivo |-> <<>>],
               logged |-> run.exc]
         ELSE [outcome |-> "return", value |-> [NombreArchivo |-> run.data],
               logged |-> "none"]

\* params of analizar_codigo: one append per element of node.args.args.
CodigoParams(node) ==
    [i \in 1..Len(node.args.args) |->
        ParamText(node.args.args[i].arg, ParamType(node, node.args.args[i]))]

\* bases of a class: the id of every base expression that has one.
RECURSIVE BaseIds(_)
BaseIds(bases) ==
    IF bases = <<>> THEN <<>>
    ELSE (IF "id" \in DOMAIN Head(bases) THEN <<Head(bases).id>> ELSE <<>>)
         \o BaseIds(Tail(bases))

\* A variant that reads an assignment with one target only.
SingleTargetName(targets) ==
    IF Len(targets) = 1 /\ targets[1].kind = "Name" THEN <<targets[1].id>> ELSE <<>>

RECURSIVE TargetNames(_)
\* the ast.Name targets of one assignment, in order.
TargetNames(targets) ==
    IF targets = <<>> THEN <<>>
    ELSE (IF Head(targets).kind = "Name" THEN <<Head(targets).id>> ELSE <<>>)
         \o TargetNames(Tail(targets))

RECURSIVE ClassMethods(_), ClassAttributes(_)
\* methods: the function definitions directly in the class body.
ClassMethods(body) ==
    IF body = <<>> THEN <<>>
    ELSE (IF Head(body).kind = "FunctionDef"
          THEN <<[nombre |-> Head(body).name,
                  args |-> [i \in 1..Len(Head(body).args.args) |->
                                Head(body).args.args[i].arg]]>>
          ELSE <<>>)
         \o ClassMethods(Tail(body))
\* attributes: the Name targets of the assignments directly in the class body.
ClassAttributes(body) ==
    IF body = <<>> THEN <<>>
    ELSE (IF Head(body).kind = "Assign" THEN TargetNames(Head(body).targets) ELSE <<>>)
         \o ClassAttributes(Tail(body))

ClassInfo(node) ==
    [nombre |-> node.name, metodos |-> ClassMethods(node.body),
     atributos |-> ClassAttributes(node.body), bases |-> BaseIds(node.bases)]

RECURSIVE CodigoLoop(_, _, _)
\* The loop of analizar_codigo over ast.walk(module).
CodigoLoop(nodes, funs, classes) ==
    IF nodes = <<>> THEN [funciones |-> funs, clases |-> classes]
    ELSE LET node == Head(nodes) IN
         IF node.kind = "FunctionDef"
         THEN CodigoLoop(Tail(nodes),
                         Append(funs, FunctionInfo(node, CodigoParams(node))), classes)
         ELSE IF node.kind = "ClassDef"
         THEN CodigoLoop(Tail(nodes), funs, Append(classes, ClassInfo(node)))
         ELSE CodigoLoop(Tail(nodes), funs, classes)

\* analizar_codigo(source_code, language): language is never read.
AnalizarCodigo(src, language) ==
    IF src.parse # "ok"
    THEN [outcome |-> "return", value |-> [funciones |-> <<>>, clases |-> <<>>],
          logged |-> src.parse]
    ELSE [outcome |-> "return", value |-> CodigoLoop(Walk(Parse(src)), <<>>, <<>>),
          logged |-> "none"]

\* obtener_anotacion: the annotation's text, 'Any' without one.
ObtenerAnotacion(anotacion) ==
    IF anotacion = None THEN "Any" ELSE Unparse(anotacion[1])

\* f"{nombre_param}({tipo_param})"
ParametoText(name, type) == name \o "(" \o type \o ")"

\* lista_parametos of analizar_funciones: one append per element of args.args.
FuncionesParams(node) ==
    [i \in 1..Len(node.args.args) |->
        ParametoText(node.args.args[i].arg,
                     ObtenerAnotacion(node.args.args[i].annotation))]

\* info_funcion: a dictionary with the function's name as its only key.
InfoFuncion(node) ==
    node.name :> [lineaInicio |-> node.lineno, lineafinal |-> node.end_lineno,
                  lista_parametos |-> FuncionesParams(node),
                  TipoReturn |-> ObtenerAnotacion(node.returns)]

RECURSIVE FuncionesLoop(_, _)
\* The loop of analizar_funciones over ast.walk(tree).
FuncionesLoop(nodes, info) ==
    IF nodes = <<>> THEN info
    ELSE IF Head(nodes).kind = "FunctionDef"
         THEN FuncionesLoop(Tail(nodes), Append(info, InfoFuncion(Head(nodes))))
         ELSE FuncionesLoop(Tail(nodes), info)

\* analizar_funciones(contenido, nombre_archivo): the strict entry point.
AnalizarFunciones(src, nombre_archivo) ==
    IF src.parse # "ok"
    THEN [outcome |-> "raise", value |-> src.parse, logged |-> "none"]
    ELSE [outcome |-> "return",
          value |-> nombre_archivo :> FuncionesLoop(Walk(Parse(src)), <<>>),
          logged |-> "none"]

Languages == {"python", "javascript"}
FileLabels == {"codigo_fuente.py", "m.py"}

NoCall == [op |-> "none", arg |-> "", outcome |-> "none", value |-> <<>>,
           logged |-> "none"]
CallOf(op, arg, r) ==
    [op |-> op, arg |-> arg, outcome |-> r.outcome, value |-> r.value,
     logged |-> r.logged]

\* The other subsystems at rest.
NoFile == [file |-> "absent", data |-> <<>>]
NoStoreCall == [op |-> "none"]
NoInvocations == <<>>
\* No text file and no helper called.
MissingFile == [exists |-> FALSE, text |-> <<>>]
NoFileCall == [op |-> "none"]
FilesIdle ==
    /\ ffile = MissingFile
    /\ fcall = NoFileCall

\* No key, no network answer drawn, and no client called.
NoLlmCall == [op |-> "none"]
LlmIdle ==
    /\ lenv = None
    /\ lnet = [kind |-> "none"]
    /\ lcall = NoLlmCall

\* No File object and no method called.
NoObjCall == [op |-> "none"]
NoWait == <<>>
ObjIdle ==
    /\ ocontenido = <<>>
    /\ ocall = NoObjCall
    /\ owait = NoWait

StoreIdle ==
    /\ jfile = NoFile
    /\ jcall = NoStoreCall
    /\ rinv = NoInvocations
    /\ roverlap = FALSE

(***************************************************************************)
(* The analysers' specification: one source text, any entry point on it    *)
(***************************************************************************)
Init ==
    /\ StoreIdle
    /\ FilesIdle
    /\ LlmIdle
    /\ ObjIdle
    /\ \/ \E n \in 0..MaxNodes : \E sk \in SkeletonForests[n] :
            \E opts \in [1..CountDefs(sk) -> FunctionOptions] :
               source = TextOf(Fill(sk, opts, 1))
       \/ \E e \in ParseErrors : source = BadText(e)
    /\ call = NoCall

CallAnalyze ==
    /\ call.op = "none"
    /\ call' = CallOf("analyze", "", Analyze(source))
    /\ UNCHANGED <<source, jVars, rVars, fVars, lVars, oVars>>

CallAnalizarCodigo ==
    /\ call.op = "none"
    /\ \E language \in Languages :
         call' = CallOf("analizar_codigo", language, AnalizarCodigo(source, language))
    /\ UNCHANGED <<source, jVars, rVars, fVars, lVars, oVars>>

CallAnalizarFunciones ==
    /\ call.op = "none"
    /\ \E nombre_archivo \in FileLabels :
         call' = CallOf("analizar_funciones", nombre_archivo,
                        AnalizarFunciones(source, nombre_archivo))
    /\ UNCHANGED <<source, jVars, rVars, fVars, lVars, oVars>>

Next ==
    \/ CallAnalyze
    \/ CallAnalizarCodigo
    \/ CallAnalizarFunciones

Spec == Init /\ [][Next]_vars


(***************************************************************************)
(* Claims about the analysers                                              *)
(***************************************************************************)
\* The texts a type can take in a parameter entry.
TypeTexts == {"unknown", "Any", "int"}

RECURSIVE DefsIn(_)
\* The function definitions of a parsed statement list, at any depth.
DefsIn(body) ==
    IF body = <<>> THEN {}
    ELSE (IF Head(body).kind = "FunctionDef" THEN {Head(body)} ELSE {})
         \cup DefsIn(Children(Head(body)))
         \cup DefsIn(Tail(body))

RECURSIVE ClassesIn(_)
\* The class definitions of a parsed statement list, at any depth.
ClassesIn(body) ==
    IF body = <<>> THEN {}
    ELSE (IF Head(body).kind = "ClassDef" THEN {Head(body)} ELSE {})
         \cup ClassesIn(Children(Head(body)))
         \cup ClassesIn(Tail(body))

SourceDefs == IF source.parse = "ok" THEN DefsIn(Parse(source).body) ELSE {}
SourceClasses == IF source.parse = "ok" THEN ClassesIn(Parse(source).body) ELSE {}

\* Every parameter a definition declares, in declaration order: positional-only,
\* positional, *args, keyword-only, **kwargs.
DeclaredParams(node) ==
    LET names(args) == [i \in 1..Len(args) |-> args[i].arg]
    IN names(node.args.posonlyargs) \o names(node.args.args)
       \o names(node.args.vararg) \o names(node.args.kwonlyargs)
       \o names(node.args.kwarg)

\* The function entries of the last call's result: name, first line, parameters.
Entries ==
    IF call.outcome # "return" THEN <<>>
    ELSE CASE call.op = "analyze" ->
                [i \in 1..Len(call.value.NombreArchivo) |->
                    [name |-> call.value.NombreArchivo[i].nombre,
                     line |-> call.value.NombreArchivo[i].linea_inicio,
                     params |-> call.value.NombreArchivo[i].parametros]]
           [] call.op = "analizar_codigo" ->
                [i \in 1..Len(call.value.funciones) |->
                    [name |-> call.value.funciones[i].nombre,
                     line |-> call.value.funciones[i].linea_inicio,
                     params |-> call.value.funciones[i].parametros]]
           [] call.op = "analizar_funciones" ->
                LET list == call.value[call.arg] IN
                [i \in 1..Len(list) |->
                    LET nm == CHOOSE n \in DOMAIN list[i] : TRUE IN
                    [name |-> nm, line |-> list[i][nm].lineaInicio,
                     params |-> list[i][nm].lista_parametos]]
           [] OTHER -> <<>>

\* The definition an entry stands for: the one of that name starting on that line.
DefOf(e) == { d \in SourceDefs : d.name = e.name /\ d.lineno = e.line }

\* A parameter entry's text names the parameter `name`.
Names(text, name) ==
    \E t \in TypeTexts : text = ParamText(name, t) \/ text = ParametoText(name, t)

\* The entry's parameter list is `params`, one entry each, in that order.
ListsParams(e, params) ==
    /\ Len(e.params) = Len(params)
    /\ \A j \in 1..Len(params) : Names(e.params[j], params[j])

\* C1 (as claimed): every function entry of analizar_codigo and analizar_funciones
\* has exactly one parameter entry per declared parameter of its function, in
\* declaration order, so as many as the function's arity.
C1_OneEntryPerDeclaredParameter ==
    call.op \in {"analizar_codigo", "analizar_funciones"} =>
        \A i \in 1..Len(Entries) :
            \E d \in DefOf(Entries[i]) : ListsParams(Entries[i], DeclaredParams(d))

\* The definition declares positional-or-keyword parameters only.
OnlyPositional(d) == Len(DeclaredParams(d)) = Len(d.args.args)

\* C2 (as claimed): every function entry of PythonAnalyzer.analyze has one
\* string per parameter of its function in declaration order, none when the
\* function has no parameters, and never a parameter of another function.
\* (The count is stated for definitions whose parameters are all
\* positional-or-keyword; C1 is about the other kinds.)
C2_AnalyzeListsOwnParameters ==
    call.op = "analyze" =>
        \A i \in 1..Len(Entries) :
            \E d \in DefOf(Entries[i]) :
                /\ DeclaredParams(d) = <<>> => Entries[i].params = <<>>
                /\ OnlyPositional(d) => ListsParams(Entries[i], DeclaredParams(d))
                /\ \A j \in 1..Len(Entries[i].params) :
                      \E k \in 1..Len(DeclaredParams(d)) :
                          Names(Entries[i].params[j], DeclaredParams(d)[k])

\* C3 (as claimed): on a text that parses, each of the three entry points
\* returns exactly one function entry per function definition of the source,
\* nested ones and methods included, none missing and none twice.
C3_OneEntryPerDefinition ==
    (call.op # "none" /\ source.parse = "ok") =>
        /\ call.outcome = "return"
        /\ Len(Entries) = Cardinality(SourceDefs)
        /\ \A d \in SourceDefs :
              Cardinality({ i \in 1..Len(Entries) : d \in DefOf(Entries[i]) }) = 1

\* The empty result of a tolerant entry point's shape.
EmptyResult(op) ==
    IF op = "analyze" THEN [NombreArchivo |-> <<>>]
    ELSE [funciones |-> <<>>, clases |-> <<>>]

\* The definitions an entry point reports: functions, and classes as well for
\* analizar_codigo.
Reportable(op) ==
    IF op = "analyze" THEN SourceDefs ELSE SourceDefs \cup SourceClasses

\* C4: analyze and analizar_codigo never raise; on a text that does not parse
\* and on any other error they return the empty result of their shape, whole;
\* and they return it only when an error occurred or the source holds no
\* definition they report.
C4_TolerantNeverRaise ==
    call.op \in {"analyze", "analizar_codigo"} =>
        /\ call.outcome = "return"
        /\ (source.parse # "ok" \/ call.logged # "none")
              => call.value = EmptyResult(call.op)
        /\ source.parse # "ok" => call.logged = source.parse
        /\ call.value = EmptyResult(call.op)
              => (call.logged # "none" \/ Reportable(call.op) = {})

\* C4's case: analyze hit an error part way through a source that has function
\* definitions, and returned the empty result.
C4_Witness ==
    /\ call.op = "analyze"
    /\ call.logged = "UnboundLocalError"
    /\ SourceDefs # {}
    /\ call.value = [NombreArchivo |-> <<>>]


(***************************************************************************)
(* The JSON store (actualizar_archivo_json, borrar_contenido_archivo_json)  *)
(***************************************************************************)
MaxDefs == 2        \* records the file holds at first, over all file-keys
MaxNew == 2         \* records handed to one call, over all file-keys

FileKeys == {"a.py", "b.py"}
FuncKeys == {"f", "g"}
Details == {1, 2}

\* Python values by type: a dictionary (a function on its keys), a list, and
\* a value that is neither.
PyDict(d) == [py |-> "dict", val |-> d]
PyList(l) == [py |-> "list", val |-> l]
PyStr == [py |-> "str", val |-> <<>>]
\* nuevos_datos, whose items are visited in insertion order.
ArgDict(items) == [py |-> "dict", val |-> items]
Item(k, v) == [key |-> k, value |-> v]

\* The file holds a JSON document, or text json.load rejects (an empty or
\* half-written file).
JsonFile(data) == [file |-> "json", data |-> data]
InvalidFile == [file |-> "invalid", data |-> <<>>]

\* A call that never reads the file and starts from {}.
LoadNothing(file) == [ok |-> TRUE, data |-> <<>>]

\* Lines 173-180: the existing content, {} without a file, or the read error.
LoadExisting(file) ==
    CASE file.file = "absent" -> [ok |-> TRUE, data |-> <<>>]
      [] file.file = "json" -> [ok |-> TRUE, data |-> file.data]
      [] OTHER -> [ok |-> FALSE, data |-> <<>>]

\* A scan that never finds the function: every record is appended.
NoMatch(defs, nombre) == 0

\* A scan that keeps going: the last record holding the name is updated.
LastMatch(defs, nombre) ==
    LET hits == { idx \in 1..Len(defs) :
                    defs[idx].py = "dict" /\ nombre \in DOMAIN defs[idx].val }
    IN IF hits = {} THEN 0 ELSE CHOOSE i \in hits : \A j \in hits : j <= i

\* Lines 200-205: the index of the first existing definition that is a
\* dictionary holding nombre_funcion, 0 when the scan finds none.
FirstMatch(defs, nombre) ==
    LET hits == { idx \in 1..Len(defs) :
                    defs[idx].py = "dict" /\ nombre \in DOMAIN defs[idx].val }
    IN IF hits = {} THEN 0 ELSE CHOOSE i \in hits : \A j \in hits : i <= j

RECURSIVE MergeDefs(_, _, _, _)
\* Lines 194-208, from the j-th new definition on. origin[idx] is the index of
\* the new definition that existing position idx is the same object as (0: none):
\* append puts the caller's own dictionary in the list, and a later update of
\* that position writes into it.
MergeDefs(defs, origin, nuevas, j) ==
    IF j > Len(nuevas) THEN [ok |-> TRUE, defs |-> defs, nuevas |-> nuevas]
    ELSE LET nueva == nuevas[j] IN
         IF nueva.py # "dict" \/ Cardinality(DOMAIN nueva.val) # 1
         THEN [ok |-> FALSE, defs |-> defs, nuevas |-> nuevas]
         ELSE LET nombre == CHOOSE n \in DOMAIN nueva.val : TRUE
                  idx == FirstMatch(defs, nombre)
              IN IF idx = 0
                 THEN MergeDefs(Append(defs, nueva), Append(origin, j), nuevas, j + 1)
                 ELSE LET updated ==
                              PyDict([defs[idx].val EXCEPT ![nombre] = nueva.val[nombre]])
                      IN MergeDefs([defs EXCEPT ![idx] = updated], origin,
                                   IF origin[idx] = 0 THEN nuevas
                                   ELSE [nuevas EXCEPT ![origin[idx]] = updated],
                                   j + 1)

\* Lines 209-212 without the merge: the new list replaces the stored one.
MergeKeyReplace(data, item) ==
    [ok |-> item.value.py = "list",
     why |-> IF item.value.py = "list" THEN "none" ELSE "not_list",
     data |-> (item.key :> item.value) @@ data, value |-> item.value]

\* Lines 186-212 without the scan: the new list is put after the stored one.
MergeKeyExtend(data, item) ==
    IF item.value.py # "list"
    THEN [ok |-> FALSE, why |-> "not_list", data |-> data, value |-> item.value]
    ELSE IF item.key \notin DOMAIN data
    THEN [ok |-> TRUE, why |-> "none",
          data |-> (item.key :> item.value) @@ data, value |-> item.value]
    ELSE [ok |-> TRUE, why |-> "none",
          data |-> [data EXCEPT ![item.key] = PyList(data[item.key].val \o item.value.val)],
          value |-> item.value]

\* Lines 184-212 for one file-key of nuevos_datos: the content afterwards and
\* the caller's list afterwards, or which check raised: the value is no list
\* (185-186), the stored entry is no list (191-192), an element is no
\* single-key dictionary (195-196).
MergeKey(data, item) ==
    IF item.value.py # "list"
    THEN [ok |-> FALSE, why |-> "not_list", data |-> data, value |-> item.value]
    ELSE IF item.key \notin DOMAIN data
    THEN [ok |-> TRUE, why |-> "none",
          data |-> (item.key :> item.value) @@ data, value |-> item.value]
    ELSE IF data[item.key].py # "list"
    THEN [ok |-> FALSE, why |-> "entry", data |-> data, value |-> item.value]
    ELSE LET old == data[item.key].val
             m == MergeDefs(old, [i \in 1..Len(old) |-> 0], item.value.val, 1)
         IN [ok |-> m.ok, why |-> IF m.ok THEN "none" ELSE "element",
             data |-> [data EXCEPT ![item.key] = PyList(m.defs)],
             value |-> PyList(m.nuevas)]

RECURSIVE MergeItems(_, _, _)
\* Lines 183-212: the loop over nuevos_datos.items(), from the i-th item on.
MergeItems(data, items, i) ==
    IF i > Len(items) THEN [ok |-> TRUE, why |-> "none", data |-> data, items |-> items]
    ELSE LET m == MergeKey(data, items[i])
             seen == [items EXCEPT ![i] = Item(items[i].key, m.value)]
         IN IF ~m.ok THEN [ok |-> FALSE, why |-> m.why, data |-> data, items |-> seen]
            ELSE MergeItems(m.data, seen, i + 1)

\* A detail json.dump cannot encode (a set, an object).
NotEncodable == 0

\* json.dump can encode the document: no record holds such a detail.
Encodable(data) ==
    \A key \in DOMAIN data :
        data[key].py = "list" =>
            \A i \in 1..Len(data[key].val) :
                data[key].val[i].py = "dict" =>
                    \A n \in DOMAIN data[key].val[i].val :
                        data[key].val[i].val[n] # NotEncodable

\* What one call gives: how it ends, which raise ended it, the file and the
\* caller's nuevos_datos afterwards.
StoreResult(outcome, exc, why, file, arg) ==
    [outcome |-> outcome, exc |-> exc, why |-> why, file |-> file, arg |-> arg]

\* A call that writes what it has merged so far before it raises.
ActualizarDumpsPartial(file, nuevos) ==
    IF nuevos.py # "dict"
    THEN StoreResult("raise", "ValueError", "not_dict", file, nuevos)
    ELSE LET ld == LoadExisting(file) IN
         IF ~ld.ok
         THEN StoreResult("raise", "Exception", "read", file, nuevos)
         ELSE LET m == MergeItems(ld.data, nuevos.val, 1) IN
              IF ~m.ok
              THEN StoreResult("raise", "Exception", m.why, JsonFile(m.data),
                               ArgDict(m.items))
              ELSE IF ~Encodable(m.data)
              THEN StoreResult("raise", "Exception", "write", InvalidFile,
                               ArgDict(m.items))
              ELSE StoreResult("return", "none", "none", JsonFile(m.data),
                               ArgDict(m.items))

\* actualizar_archivo_json(path, nuevos_datos).  It raises for an argument
\* that is no dictionary (169-170), a file it cannot load (173-178), one of
\* the checks of the loop (185-196), or a document json.dump cannot encode
\* (214-219): open(path, "w") has then emptied the file and the text written
\* before the error is no JSON document.
ActualizarArchivoJson(file, nuevos) ==
    IF nuevos.py # "dict"
    THEN StoreResult("raise", "ValueError", "not_dict", file, nuevos)
    ELSE LET ld == LoadExisting(file) IN
         IF ~ld.ok
         THEN StoreResult("raise", "Exception", "read", file, nuevos)
         ELSE LET m == MergeItems(ld.data, nuevos.val, 1) IN
              IF ~m.ok
              THEN StoreResult("raise", "Exception", m.why, file, ArgDict(m.items))
              ELSE IF ~Encodable(m.data)
              THEN StoreResult("raise", "Exception", "write", InvalidFile,
                               ArgDict(m.items))
              ELSE StoreResult("return", "none", "none", JsonFile(m.data),
                               ArgDict(m.items))

\* The well-formed definitions: one function name, its details.
Records == { PyDict(n :> d) : n \in FuncKeys, d \in Details }
\* A definition with two keys, and one that is no dictionary.
BadRecords == { PyDict(("f" :> 1) @@ ("g" :> 1)), PyStr }

\* The well-formed definitions a caller can hand over: their details may be
\* something json.dump cannot encode.
NewRecords == Records \cup { PyDict(n :> NotEncodable) : n \in FuncKeys }

\* The lists of at most n well-formed definitions.
RecordLists(n) == UNION { [1..k -> NewRecords] : k \in 0..n }

\* The values nuevos_datos gives a file-key: lists of definitions with at most
\* n elements, a list with one malformed element, or no list at all.
NewValues(n) ==
    { PyList(l) : l \in RecordLists(n) }
    \cup (IF n >= 1 THEN { PyList(<<b>>) : b \in BadRecords } \cup {PyStr} ELSE {})

\* The elements a value hands over.
Elements(value) == IF value.py = "list" THEN Len(value.val) ELSE 0

\* The arguments of a call: no dictionary, the empty one, one file-key with
\* at most MaxNew elements, or two file-keys (in either insertion order) with
\* at most one element each.
NewData ==
    {PyStr, ArgDict(<<>>)}
    \cup { ArgDict(<<Item(k, v)>>) : k \in FileKeys, v \in NewValues(MaxNew) }
    \cup { ArgDict(<<Item(q[1], q[2]), Item(q[3], q[4])>>) :
             q \in { r \in FileKeys \X NewValues(1) \X FileKeys \X NewValues(1) :
                       r[1] # r[3] } }

\* The record of a call: its argument, how it ended, the argument afterwards,
\* the file when it began, and the file when the first of a pair of calls began.
StoreCallOf(nuevos, r, calls, start) ==
    [op |-> "actualizar", arg |-> nuevos, outcome |-> r.outcome,
     exc |-> r.exc, why |-> r.why, argAfter |-> r.arg, calls |-> calls,
     before |-> jfile, start |-> start]

\* What a file-key of a stored document holds: nothing, or a list of what
\* wholesale insertion lets in.
StoredDefs == Records \cup BadRecords
StoredLists(n) == UNION { [1..k -> StoredDefs] : k \in 0..n }
KeyContents(n) == {None} \cup { Some(PyList(l)) : l \in StoredLists(n) }
ContentSize(c) == IF c = None THEN 0 ELSE Elements(c[1])

\* nuevos_datos with these contents, file-key by file-key.
RECURSIVE ItemsOf(_, _)
ItemsOf(contents, keys) ==
    IF keys = {} THEN <<>>
    ELSE LET k == CHOOSE x \in keys : TRUE
         IN (IF contents[k] = None THEN <<>> ELSE <<Item(k, contents[k][1])>>)
            \o ItemsOf(contents, keys \ {k})

\* The file an earlier call left: on a missing file every file-key is unknown
\* and its list goes in as it is (lines 209-212).
Created(contents) ==
    ActualizarArchivoJson(NoFile, ArgDict(ItemsOf(contents, DOMAIN contents))).file

\* A file somebody else wrote: file-key `key` holds a value that is no list
\* (the case lines 191-192 check for), the other file-key holds `contents`.
HandMade(key, contents) ==
    JsonFile((key :> PyStr)
             @@ Created([k \in FileKeys |-> IF k = key THEN None ELSE contents]).data)

(***************************************************************************)
(* The store's specification: a file as earlier calls or somebody else     *)
(* left it, one call, and the same call once more                          *)
(***************************************************************************)
AnalyserIdle ==
    /\ source = BadText("SyntaxError")
    /\ call = NoCall

\* There is no file, or the file an earlier call created, or the unreadable
\* one borrar_contenido_archivo_json leaves, or a file in which a file-key
\* holds no list.
InitStore ==
    /\ AnalyserIdle
    /\ FilesIdle
    /\ LlmIdle
    /\ ObjIdle
    /\ \/ jfile \in {NoFile, InvalidFile}
       \/ \E contents \in [FileKeys -> KeyContents(MaxDefs)] :
             /\ ContentSize(contents["a.py"]) + ContentSize(contents["b.py"]) <= MaxDefs
             /\ jfile = Created(contents)
       \/ \E key \in FileKeys : \E contents \in KeyContents(MaxDefs) :
             jfile = HandMade(key, contents)
    /\ jcall = NoStoreCall
    /\ rinv = NoInvocations
    /\ roverlap = FALSE

\* One call of actualizar_archivo_json, from its first line to its return.
Actualizar ==
    /\ jcall.op \in {"none", "borrar"}
    /\ \E nuevos \in NewData :
        LET r == ActualizarArchivoJson(jfile, nuevos) IN
        /\ jfile' = r.file
        /\ jcall' = StoreCallOf(nuevos, r, 1, jfile)
    /\ UNCHANGED <<aVars, rVars, fVars, lVars, oVars>>

\* The call made again: with the object the caller passed before, as the first
\* call left it, or with an equal one built anew.
ActualizarOtraVez ==
    /\ jcall.op = "actualizar"
    /\ jcall.calls = 1
    /\ \E nuevos \in {jcall.arg, jcall.argAfter} :
        LET r == ActualizarArchivoJson(jfile, nuevos) IN
        /\ jfile' = r.file
        /\ jcall' = StoreCallOf(nuevos, r, 2, jcall.before)
    /\ UNCHANGED <<aVars, rVars, fVars, lVars, oVars>>

\* borrar_contenido_archivo_json: the file is opened for writing (created if
\* need be) and left empty.
BorrarContenido ==
    /\ jcall.op = "none"
    /\ jfile' = InvalidFile
    /\ jcall' = [op |-> "borrar"]
    /\ UNCHANGED <<aVars, rVars, fVars, lVars, oVars>>

NextStore ==
    \/ Actualizar
    \/ ActualizarOtraVez
    \/ BorrarContenido

SpecStore == InitStore /\ [][NextStore]_vars

(***************************************************************************)
(* Claims about the JSON store                                             *)
(***************************************************************************)
\* The document a file holds for the merge: {} when there is no file.
DataOf(file) == IF file.file = "json" THEN file.data ELSE <<>>

\* The positions of a list whose record has the function name as a key.
Holders(defs, nombre) ==
    { idx \in 1..Len(defs) : defs[idx].py = "dict" /\ nombre \in DOMAIN defs[idx].val }

\* How many records a file holds for a function name under a file-key.
Count(file, key, nombre) ==
    IF key \in DOMAIN DataOf(file) /\ DataOf(file)[key].py = "list"
    THEN Cardinality(Holders(DataOf(file)[key].val, nombre))
    ELSE 0

\* The value is a list with exactly one record for the function name.
NamedOnce(value, nombre) ==
    value.py = "list" /\ Cardinality(Holders(value.val, nombre)) = 1

\* The same argument was merged twice in a row and the second merge returned.
MergedTwice ==
    /\ jcall.op = "actualizar"
    /\ jcall.calls = 2
    /\ jcall.outcome = "return"

\* C5 as stated: merging the same function record twice (same path, same
\* file-key, same function name) leaves exactly one record for that function
\* name under that file-key.
C5_Original ==
    MergedTwice =>
        \A i \in 1..Len(jcall.arg.val) : \A nombre \in FuncKeys :
            NamedOnce(jcall.arg.val[i].value, nombre)
                => Count(jfile, jcall.arg.val[i].key, nombre) = 1

\* C5 amended: merging the same function record twice leaves exactly one record
\* for that function name under that file-key when the store held none or one
\* before the first merge, and as many as it held before otherwise: the second
\* merge never adds a record.
C5_MergeTwiceAddsOnce ==
    MergedTwice =>
        \A i \in 1..Len(jcall.arg.val) : \A nombre \in FuncKeys :
            NamedOnce(jcall.arg.val[i].value, nombre)
                => Count(jfile, jcall.arg.val[i].key, nombre)
                     = Max2(1, Count(jcall.start, jcall.arg.val[i].key, nombre))

\* C5's case: a record for a function the store did not hold, under a file-key
\* it did hold, merged twice; one record is there.
C5_Witness ==
    /\ MergedTwice
    /\ \E i \in 1..Len(jcall.arg.val) : \E nombre \in FuncKeys :
          /\ NamedOnce(jcall.arg.val[i].value, nombre)
          /\ jcall.arg.val[i].key \in DOMAIN DataOf(jcall.start)
          /\ Count(jcall.start, jcall.arg.val[i].key, nombre) = 0
          /\ Count(jfile, jcall.arg.val[i].key, nombre) = 1

\* What the claim says one new record does to a list: the first record holding
\* its name gets the new details in place, or the record goes at the end.
Handled(defs, nueva) ==
    LET nombre == CHOOSE n \in DOMAIN nueva.val : TRUE
        holders == Holders(defs, nombre)
    IN IF holders = {} THEN defs \o <<nueva>>
       ELSE LET first == CHOOSE h \in holders : \A o \in holders : h <= o
            IN [idx \in 1..Len(defs) |->
                  IF idx # first THEN defs[idx]
                  ELSE PyDict([n \in DOMAIN defs[idx].val |->
                                 IF n = nombre THEN nueva.val[nombre]
                                 ELSE defs[idx].val[n]])]

RECURSIVE HandledAll(_, _, _)
HandledAll(defs, nuevas, j) ==
    IF j > Len(nuevas) THEN defs
    ELSE HandledAll(Handled(defs, nuevas[j]), nuevas, j + 1)

\* C6: for a file-key already in the store each new record {f: details}
\* updates the first existing record holding f in place (same position, same
\* list length) or, without one, is appended at the end; a file-key not in the
\* store is inserted with the supplied list as its value.
C6_UpdateFirstMatchOrAppend ==
    (jcall.op = "actualizar" /\ jcall.outcome = "return") =>
        /\ jfile.file = "json"
        /\ \A i \in 1..Len(jcall.arg.val) :
              LET item == jcall.arg.val[i]
                  old == DataOf(jcall.before)
              IN /\ item.key \in DOMAIN jfile.data
                 /\ IF item.key \in DOMAIN old
                    THEN jfile.data[item.key]
                           = PyList(HandledAll(old[item.key].val, item.value.val, 1))
                    ELSE jfile.data[item.key] = item.value

\* C6's case: under a file-key the store held, one new record found its name
\* in more than one existing record and another found it in none.
C6_Witness ==
    /\ jcall.op = "actualizar"
    /\ jcall.outcome = "return"
    /\ \E i \in 1..Len(jcall.arg.val) :
          LET item == jcall.arg.val[i]
              old == DataOf(jcall.before)
          IN /\ item.key \in DOMAIN old
             /\ \E a, b \in 1..Len(item.value.val) :
                   /\ Cardinality(Holders(old[item.key].val,
                                          CHOOSE n \in DOMAIN item.value.val[a].val : TRUE)) > 1
                   /\ Holders(old[item.key].val,
                              CHOOSE n \in DOMAIN item.value.val[b].val : TRUE) = {}

(***************************************************************************)
(* Two invocations of actualizar_archivo_json on one path                  *)
(*                                                                         *)
(* An invocation reads the file (lines 173-180), merges in its own memory  *)
(* (183-212), opens the file for writing, which empties it (216), and      *)
(* dumps its document (217).  Nothing orders the steps of two invocations. *)
(***************************************************************************)
Workers == {1, 2}
WorkerFunc == (1 :> "f") @@ (2 :> "g")

\* What worker w merges: one record for its own function under a file-key.
WorkerData(w, key) == ArgDict(<<Item(key, PyList(<<PyDict(WorkerFunc[w] :> w)>>))>>)

Invocation(pc, nuevos, mem) == [pc |-> pc, nuevos |-> nuevos, mem |-> mem]

\* Between its first read and its last write.
Running(inv) == inv.pc \in {"loaded", "writing"}

InitRace ==
    /\ AnalyserIdle
    /\ FilesIdle
    /\ LlmIdle
    /\ ObjIdle
    /\ \/ jfile = NoFile
       \/ \E contents \in [FileKeys -> KeyContents(MaxDefs)] :
             /\ ContentSize(contents["a.py"]) + ContentSize(contents["b.py"]) <= MaxDefs
             /\ jfile = Created(contents)
    /\ jcall = NoStoreCall
    /\ \E keys \in [Workers -> FileKeys] :
          rinv = [w \in Workers |-> Invocation("start", WorkerData(w, keys[w]), <<>>)]
    /\ roverlap = FALSE

\* Lines 169-212: the invocation reads the file and merges into what it read.
\* An unreadable file (emptied by a writer that has not dumped yet) ends it.
LoadAndMerge(w) ==
    /\ rinv[w].pc = "start"
    /\ LET ld == LoadExisting(jfile)
           m == MergeItems(ld.data, rinv[w].nuevos.val, 1)
       IN rinv' = [rinv EXCEPT ![w] =
                     IF ld.ok /\ m.ok
                     THEN Invocation("loaded", rinv[w].nuevos, m.data)
                     ELSE Invocation("failed", rinv[w].nuevos, <<>>)]
    /\ roverlap' = (roverlap \/ \E o \in Workers \ {w} : Running(rinv[o]))
    /\ UNCHANGED <<aVars, jfile, jcall, fVars, lVars, oVars>>

\* json.dump(..., indent=4): how many characters a value takes when it starts
\* at the given nesting depth.  An empty container takes two; otherwise each
\* entry has its own line and indentation, entries are separated by commas and
\* the closing bracket has its own line.
Wrapped(entries, count, depth) ==
    IF count = 0 THEN 2
    ELSE 1 + entries + count * (1 + 4 * (depth + 1)) + (count - 1) + 1 + 4 * depth + 1

RECURSIVE DetailsLen(_)
\* "name": detail for each name; a detail is one digit.
DetailsLen(names) ==
    IF names = {} THEN 0
    ELSE LET n == CHOOSE x \in names : TRUE
         IN (Len(n) + 2) + 2 + 1 + DetailsLen(names \ {n})

\* A definition, or a list element that is a one-character string.
DefLen(def, depth) ==
    IF def.py = "dict"
    THEN Wrapped(DetailsLen(DOMAIN def.val), Cardinality(DOMAIN def.val), depth)
    ELSE 3

RECURSIVE DefsLen(_, _)
DefsLen(list, depth) ==
    IF list = <<>> THEN 0 ELSE DefLen(Head(list), depth) + DefsLen(Tail(list), depth)

ListLen(list, depth) == Wrapped(DefsLen(list, depth + 1), Len(list), depth)

RECURSIVE ListsLen(_, _)
\* "file-key": list for each file-key.
ListsLen(data, keys) ==
    IF keys = {} THEN 0
    ELSE LET k == CHOOSE x \in keys : TRUE
         IN (Len(k) + 2) + 2 + ListLen(data[k].val, 1) + ListsLen(data, keys \ {k})

JsonLen(data) == Wrapped(ListsLen(data, DOMAIN data), Cardinality(DOMAIN data), 0)

\* Line 216: open(path, "w") empties the file.
OpenForWriting(w) ==
    /\ rinv[w].pc = "loaded"
    /\ jfile' = InvalidFile
    /\ rinv' = [rinv EXCEPT ![w].pc = "writing"]
    /\ UNCHANGED <<aVars, jcall, roverlap, fVars, lVars, oVars>>

\* Line 217 and the close: the text of the document goes to the file from its
\* start.  On a file another writer filled in the meantime a shorter text
\* leaves the end of that writer's text behind it, which json.load rejects.
Dump(w) ==
    /\ rinv[w].pc = "writing"
    /\ jfile' = IF jfile.file = "json" /\ JsonLen(rinv[w].mem) < JsonLen(jfile.data)
                THEN InvalidFile
                ELSE JsonFile(rinv[w].mem)
    /\ rinv' = [rinv EXCEPT ![w].pc = "done"]
    /\ UNCHANGED <<aVars, jcall, roverlap, fVars, lVars, oVars>>

NextRace ==
    \E w \in Workers :
        \/ LoadAndMerge(w)
        \/ OpenForWriting(w)
        \/ Dump(w)

SpecRace == InitRace /\ [][NextRace]_vars

\* The file holds worker w's record under the file-key w merged into.
HasRecordOf(w) ==
    LET item == rinv[w].nuevos.val[1] IN
    /\ jfile.file = "json"
    /\ item.key \in DOMAIN jfile.data
    /\ \E idx \in 1..Len(jfile.data[item.key].val) :
          LET def == jfile.data[item.key].val[idx] IN
          /\ def.py = "dict"
          /\ WorkerFunc[w] \in DOMAIN def.val
          /\ def.val[WorkerFunc[w]] = w

\* C7: the store has no protection against concurrent writers; invocations
\* that run one after the other both finish and leave both records in the
\* file, while interleaved load and write steps can leave a file that lacks
\* one of the two records (the last write wins).
C7_SequentialKeepsBoth ==
    ((\A w \in Workers : rinv[w].pc \in {"done", "failed"}) /\ ~roverlap)
        => \A w \in Workers : rinv[w].pc = "done" /\ HasRecordOf(w)

\* C7's case: both invocations wrote, their steps interleaved, and the file
\* is a document with the record of one and without the record of the other.
C7_Witness ==
    /\ \A w \in Workers : rinv[w].pc = "done"
    /\ roverlap
    /\ jfile.file = "json"
    /\ \E w \in Workers : HasRecordOf(w) /\ \E o \in Workers \ {w} : ~HasRecordOf(o)

(***************************************************************************)
(* The line-range helpers (read_file_range, modificar_archivo,             *)
(* escribir_archivo)                                                       *)
(*                                                                         *)
(* A text is a sequence of characters: "x" stands for any character that   *)
(* ends no line, "LF" and "CR" for line feed and carriage return.          *)
(***************************************************************************)
MaxFileLen == 4         \* characters in the file at first
MaxTextLen == 2         \* characters in the text handed to a helper
MaxLine == 3            \* the largest line number handed to a helper

Chars == {"x", "LF", "CR"}
Texts(n) == UNION { [1..k -> Chars] : k \in 0..n }

\* start_line, end_line, inicio, fin: None or an integer.
LineArgs == {None} \cup { Some(i) : i \in -1..MaxLine }

TextFile(text) == [exists |-> TRUE, text |-> text]

RECURSIVE Translate(_)
\* Reading in text mode (open(path, 'r'), newline=None): CR LF and a lone CR
\* reach the program as LF.
Translate(raw) ==
    IF raw = <<>> THEN <<>>
    ELSE IF raw[1] # "CR" THEN <<raw[1]>> \o Translate(Tail(raw))
    ELSE IF Len(raw) >= 2 /\ raw[2] = "LF"
         THEN <<"LF">> \o Translate(SubSeq(raw, 3, Len(raw)))
         ELSE <<"LF">> \o Translate(Tail(raw))

RECURSIVE LinesFrom(_, _)
\* readlines(): each line ends after its LF; cur is the line being read.
LinesFrom(text, cur) ==
    IF text = <<>> THEN (IF cur = <<>> THEN <<>> ELSE <<cur>>)
    ELSE IF text[1] = "LF"
         THEN <<Append(cur, "LF")>> \o LinesFrom(Tail(text), <<>>)
         ELSE LinesFrom(Tail(text), Append(cur, text[1]))

ReadLines(raw) == LinesFrom(Translate(raw), <<>>)

RECURSIVE SplitLines(_, _)
\* str.splitlines(True): a line ends after LF, CR LF, a lone CR or one of the
\* other line boundaries (form feed FF stands for them), and keeps its
\* terminator.
SplitLines(text, cur) ==
    IF text = <<>> THEN (IF cur = <<>> THEN <<>> ELSE <<cur>>)
    ELSE IF text[1] \in {"LF", "FF"}
         THEN <<Append(cur, text[1])>> \o SplitLines(Tail(text), <<>>)
    ELSE IF text[1] = "CR"
         THEN IF Len(text) >= 2 /\ text[2] = "LF"
              THEN <<cur \o <<"CR", "LF">>>> \o SplitLines(SubSeq(text, 3, Len(text)), <<>>)
              ELSE <<Append(cur, "CR")>> \o SplitLines(Tail(text), <<>>)
    ELSE SplitLines(Tail(text), Append(cur, text[1]))

RECURSIVE Join(_)
\* ''.join(lines), and writelines(lines) on a file opened with 'w'.
Join(lines) == IF lines = <<>> THEN <<>> ELSE lines[1] \o Join(Tail(lines))

\* lines[lo:hi] for 0 <= lo and 0 <= hi.
Slice(lines, lo, hi) == SubSeq(lines, lo + 1, IF hi < Len(lines) THEN hi ELSE Len(lines))

\* The truth value of an argument: None and 0 are false.
Truthy(arg) == arg # None /\ arg[1] # 0

FileResult(outcome, exc, value, file, opened) ==
    [outcome |-> outcome, exc |-> exc, value |-> value, file |-> file, opened |-> opened]

\* read_file_range(file_path, start_line, end_line), lines 18-32.
ReadFileRange(file, start_line, end_line) ==
    IF Truthy(start_line) /\ start_line[1] < 1
    THEN FileResult("raise", "ValueError", <<>>, file, FALSE)
    ELSE IF Truthy(end_line) /\ end_line[1] < 1
    THEN FileResult("raise", "ValueError", <<>>, file, FALSE)
    ELSE IF Truthy(start_line) /\ Truthy(end_line) /\ start_line[1] > end_line[1]
    THEN FileResult("raise", "ValueError", <<>>, file, FALSE)
    ELSE IF ~file.exists
    THEN FileResult("raise", "FileNotFoundError", <<>>, file, TRUE)
    ELSE LET lines == ReadLines(file.text)
             start == IF Truthy(start_line) THEN start_line[1] - 1 ELSE 0
             end == IF Truthy(end_line) THEN end_line[1] ELSE Len(lines)
         IN FileResult("return", "none", Join(Slice(lines, start, end)), file, TRUE)

\* modificar_archivo(path, contenido, inicio, fin), lines 49-106.  The file is
\* written with open(path, 'w'), which writes LF as LF where the line
\* separator is LF.
ModificarArchivo(file, contenido, inicio, fin) ==
    IF inicio # None /\ inicio[1] < 1
    THEN FileResult("raise", "ValueError", <<>>, file, FALSE)
    ELSE IF fin # None /\ fin[1] < 1
    THEN FileResult("raise", "ValueError", <<>>, file, FALSE)
    ELSE IF inicio # None /\ fin # None /\ fin[1] < inicio[1]
    THEN FileResult("raise", "ValueError", <<>>, file, FALSE)
    ELSE IF ~file.exists
    THEN FileResult("raise", "FileNotFoundError", <<>>, file, TRUE)
    ELSE LET lineas_originales == ReadLines(file.text)
             longitud_original == Len(lineas_originales)
             indice_inicio == IF inicio # None THEN Max2(inicio[1] - 1, 0) ELSE 0
             indice_fin == Max2(IF fin # None THEN fin[1] - 1
                                ELSE IF longitud_original > 0
                                     THEN longitud_original - 1 ELSE 0,
                                indice_inicio)
             lineas_contenido == SplitLines(contenido, <<>>)
             lineas_nuevas ==
                 IF indice_inicio >= longitud_original
                 THEN lineas_originales \o lineas_contenido
                 ELSE Slice(lineas_originales, 0, indice_inicio)
                      \o lineas_contenido
                      \o Slice(lineas_originales,
                               (IF indice_fin < longitud_original - 1
                                THEN indice_fin ELSE longitud_original - 1) + 1,
                               longitud_original)
         IN FileResult("return", "none", <<>>, TextFile(Join(lineas_nuevas)), TRUE)

\* escribir_archivo(ruta, contenido), lines 118-127: the file is created or
\* overwritten with the text.
EscribirArchivo(file, contenido) ==
    FileResult("return", "none", <<>>, TextFile(contenido), TRUE)

\* The record of a helper's call: its arguments, the file when it began, how
\* it ended, and the text escribir_archivo wrote just before it, if it did.
FileCallOf(op, contenido, lo, hi, r) ==
    [op |-> op, contenido |-> contenido, lo |-> lo, hi |-> hi, before |-> ffile,
     outcome |-> r.outcome, exc |-> r.exc, value |-> r.value, opened |-> r.opened,
     written |-> IF fcall.op = "escribir_archivo" THEN Some(fcall.contenido) ELSE None]

(***************************************************************************)
(* The helpers' specification: a text file, or none, and calls on it       *)
(***************************************************************************)
InitFile ==
    /\ AnalyserIdle
    /\ StoreIdle
    /\ LlmIdle
    /\ ObjIdle
    /\ \/ ffile = MissingFile
       \/ \E text \in Texts(MaxFileLen) : ffile = TextFile(text)
    /\ fcall = NoFileCall

CallReadFileRange ==
    /\ fcall.op \in {"none", "escribir_archivo"}
    /\ \E start_line \in LineArgs, end_line \in LineArgs :
          LET r == ReadFileRange(ffile, start_line, end_line) IN
          /\ ffile' = r.file
          /\ fcall' = FileCallOf("read_file_range", <<>>, start_line, end_line, r)
    /\ UNCHANGED <<aVars, jVars, rVars, lVars, oVars>>

CallModificarArchivo ==
    /\ fcall.op = "none"
    /\ \E contenido \in Texts(MaxTextLen), inicio \in LineArgs, fin \in LineArgs :
          LET r == ModificarArchivo(ffile, contenido, inicio, fin) IN
          /\ ffile' = r.file
          /\ fcall' = FileCallOf("modificar_archivo", contenido, inicio, fin, r)
    /\ UNCHANGED <<aVars, jVars, rVars, lVars, oVars>>

CallEscribirArchivo ==
    /\ fcall.op = "none"
    /\ \E contenido \in Texts(MaxTextLen) :
          LET r == EscribirArchivo(ffile, contenido) IN
          /\ ffile' = r.file
          /\ fcall' = FileCallOf("escribir_archivo", contenido, None, None, r)
    /\ UNCHANGED <<aVars, jVars, rVars, lVars, oVars>>

NextFile ==
    \/ CallReadFileRange
    \/ CallModificarArchivo
    \/ CallEscribirArchivo

SpecFile == InitFile /\ [][NextFile]_vars

(***************************************************************************)
(* Claims about the line-range helpers                                     *)
(***************************************************************************)
\* The lines of a file as it is on disk, each with the terminator it has
\* there (LF, CR LF or CR; the last line may have none).
FileLines(file) == SplitLines(file.text, <<>>)

\* A bound, or what an omitted bound means.
BoundOr(arg, default) == IF arg = None THEN default ELSE arg[1]

\* C8: modificar_archivo on a file of n lines with 1 <= a <= b <= n and a
\* replacement content of k lines leaves a file of exactly n + k - (b - a + 1)
\* lines: lines 1..a-1 unchanged, then the k replacement lines, then the
\* former lines b+1..n unchanged and in their order.
C8_ReplaceShiftsLines ==
    (/\ fcall.op = "modificar_archivo"
     /\ fcall.before.exists
     /\ fcall.lo # None
     /\ fcall.hi # None
     /\ 1 <= fcall.lo[1]
     /\ fcall.lo[1] <= fcall.hi[1]
     /\ fcall.hi[1] <= Len(FileLines(fcall.before)))
        => LET old == FileLines(fcall.before)
               new == FileLines(ffile)
               replacement == SplitLines(fcall.contenido, <<>>)
               a == fcall.lo[1]
               b == fcall.hi[1]
               n == Len(old)
               k == Len(replacement)
           IN /\ fcall.outcome = "return"
              /\ Len(new) = n + k - (b - a + 1)
              /\ SubSeq(new, 1, a - 1) = SubSeq(old, 1, a - 1)
              /\ SubSeq(new, a, a + k - 1) = replacement
              /\ SubSeq(new, a + k, Len(new)) = SubSeq(old, b + 1, n)

\* C9: read_file_range on a file of n lines with 1 <= start <= end <= n
\* returns exactly lines start..end, in order, with their line terminators;
\* an omitted start means line 1 and an omitted end means line n.
C9_ReadReturnsRange ==
    (/\ fcall.op = "read_file_range"
     /\ fcall.before.exists
     /\ 1 <= BoundOr(fcall.lo, 1)
     /\ BoundOr(fcall.lo, 1) <= BoundOr(fcall.hi, Len(FileLines(fcall.before)))
     /\ BoundOr(fcall.hi, Len(FileLines(fcall.before))) <= Len(FileLines(fcall.before)))
        => /\ fcall.outcome = "return"
           /\ fcall.value = Join(SubSeq(FileLines(fcall.before),
                                        BoundOr(fcall.lo, 1),
                                        BoundOr(fcall.hi, Len(FileLines(fcall.before)))))

\* The bounds the claim calls invalid: one of them zero or negative, or the
\* start after the end.
InvalidBounds(lo, hi) ==
    \/ lo # None /\ lo[1] <= 0
    \/ hi # None /\ hi[1] <= 0
    \/ lo # None /\ hi # None /\ lo[1] > hi[1]

\* C10: read_file_range with invalid bounds (a start_line or end_line that is
\* zero or negative, or start_line > end_line) fails with ValueError before
\* the file is opened, and never returns text.
C10_InvalidBoundsRejected ==
    (fcall.op = "read_file_range" /\ InvalidBounds(fcall.lo, fcall.hi))
        => /\ fcall.outcome = "raise"
           /\ fcall.exc = "ValueError"
           /\ ~fcall.opened

\* C11: after escribir_archivo(path, text), read_file_range(path) without
\* bounds returns the text as it was written, and read_file_range(path, a, b)
\* returns lines a..b of the written text, for every text (carriage returns,
\* CR LF, no final newline included).
C11_WriteThenReadRoundTrip ==
    (fcall.op = "read_file_range" /\ fcall.written # None)
        => LET text == fcall.written[1]
               lines == SplitLines(text, <<>>)
           IN /\ (fcall.lo = None /\ fcall.hi = None)
                    => (fcall.outcome = "return" /\ fcall.value = text)
              /\ (/\ fcall.lo # None
                  /\ fcall.hi # None
                  /\ 1 <= fcall.lo[1]
                  /\ fcall.lo[1] <= fcall.hi[1]
                  /\ fcall.hi[1] <= Len(lines))
                    => (/\ fcall.outcome = "return"
                        /\ fcall.value = Join(SubSeq(lines, fcall.lo[1], fcall.hi[1])))

\* The lines of a text as a program reads them (every terminator an LF).
TextLines(text) == ReadLines(text)

\* C12: modificar_archivo clamps bounds that are out of range.  With inicio
\* above the line count the replacement lines are appended after the last line
\* and every original line is kept, whatever fin is; with fin omitted or above
\* the line count the replaced range runs from inicio through the last line.
C12_ClampsOutOfRangeBounds ==
    (fcall.op = "modificar_archivo" /\ fcall.before.exists)
        => LET old == TextLines(fcall.before.text)
               new == TextLines(ffile.text)
               replacement == TextLines(fcall.contenido)
               n == Len(old)
               a == BoundOr(fcall.lo, 1)
           IN /\ (/\ fcall.lo # None
                  /\ fcall.lo[1] > n
                  /\ (fcall.hi = None \/ fcall.hi[1] >= fcall.lo[1]))
                    => (fcall.outcome = "return" /\ new = old \o replacement)
              /\ (/\ 1 <= a
                  /\ a <= n
                  /\ (fcall.hi = None \/ fcall.hi[1] > n))
                    => (/\ fcall.outcome = "return"
                        /\ new = SubSeq(old, 1, a - 1) \o replacement)


(***************************************************************************)
(* The Gemini clients (src/src/llm_api.py, src/src/gemini_api.py)          *)
(***************************************************************************)
\* JSON values, as response.json() returns them.  Each Python type has its
\* own field, so that values of different types are simply unequal.
JNull == [null |-> TRUE]
JNum(n) == [num |-> n]
JStr(s) == [str |-> s]
JList(l) == [list |-> l]
JObj(o) == [obj |-> o]
\* A response body that is not a JSON document.
NotJson == [notjson |-> TRUE]

IsStr(v) == "str" \in DOMAIN v
IsList(v) == "list" \in DOMAIN v
IsObj(v) == "obj" \in DOMAIN v

\* bool(v) of a JSON value.
Truthy2(v) ==
    IF IsStr(v) THEN v.str # <<>>
    ELSE IF IsList(v) THEN v.list # <<>>
    ELSE IF IsObj(v) THEN DOMAIN v.obj # {}
    ELSE IF "num" \in DOMAIN v THEN v.num # 0
    ELSE FALSE

\* dict.get(key): the value under the key, or None.
Get(v, key) == IF key \in DOMAIN v.obj THEN v.obj[key] ELSE JNull

\* len(v) is defined for strings, lists and dicts only.
Sized(v) == IsStr(v) \/ IsList(v) \/ IsObj(v)
PyLen(v) ==
    IF IsStr(v) THEN Len(v.str)
    ELSE IF IsList(v) THEN Len(v.list)
    ELSE Cardinality(DOMAIN v.obj)

\* `key in v`: a key of a dict; an element of a list or a substring of a
\* string, which no key name is among the values drawn here.
HasKey(v, key) == IsObj(v) /\ key \in DOMAIN v.obj

\* v[0] of a non-empty list or string.
First(v) == IF IsList(v) THEN v.list[1] ELSE JStr(<<v.str[1]>>)

\* str.strip() over the alphabet of the answers: blanks go at both ends.
RECURSIVE LStrip(_)
LStrip(s) == IF s # <<>> /\ s[1] = " " THEN LStrip(Tail(s)) ELSE s
RECURSIVE RStrip(_)
RStrip(s) ==
    IF s # <<>> /\ s[Len(s)] = " " THEN RStrip(SubSeq(s, 1, Len(s) - 1)) ELSE s
Strip(s) == RStrip(LStrip(s))

\* The answers a model may give, blanks and a leading "=" included.
Answers == {<<"h">>, <<" ", "h", " ">>, <<"=", "h">>, <<"=", " ", "h">>, <<>>}

\* Values that are of the wrong type or shape wherever they stand.
Misfits == {JNull, JNum(1), JStr(<<"h">>), JList(<<>>), JObj(<<>>),
            JObj("x" :> JNull)}

\* Response documents, built outwards from the text of the first part: each
\* level is either as generateContent documents it or a misfit.
TextValues == {JStr(t) : t \in Answers} \cup Misfits
PartValues == {JObj("text" :> t) : t \in TextValues} \cup Misfits
PartsValues == {JList(<<p>>) : p \in PartValues} \cup Misfits
ContentValues == {JObj("parts" :> ps) : ps \in PartsValues} \cup Misfits
CandidateValues == {JObj("content" :> c) : c \in ContentValues} \cup Misfits
CandidatesValues == {JList(<<c>>) : c \in CandidateValues} \cup Misfits
Documents == {JObj("candidates" :> cs) : cs \in CandidatesValues} \cup Misfits
\* streamGenerateContent answers with a list of such documents.
Streams == {JList(<<d>>) : d \in Documents}
Bodies == Documents \cup Streams \cup {NotJson}

ErrorBodies == {NotJson, JObj("error" :> JStr(<<"h">>))}

\* What requests.post and raise_for_status meet: an exception of the
\* library, or a response with a status and a body.
Response(status, body) == [kind |-> "response", status |-> status, body |-> body]
Networks ==
    {[kind |-> k] : k \in {"Timeout", "ConnectionError", "RequestException"}}
        \cup {Response(200, b) : b \in Bodies}
        \cup {Response(st, b) : st \in {400, 401, 403, 429, 500}, b \in ErrorBodies}

\* A variant that only notices an absent value.
Absent(value) == value = None
\* `not value` of an optional string: absent or empty.
NotSet(value) == value = None \/ value[1] = ""

LlmResult(outcome, exc, value, sent) ==
    [outcome |-> outcome, exc |-> exc, value |-> value, sent |-> sent]

CONTENT_TYPE_JSON == "application/json"
CONTENT_TYPE_TEXT == "text/plain"

\* The text of a successful response, or the failure of looking for it.
ProcesarRespuesta(body) ==
    IF body = NotJson THEN LlmResult("raise", "RespuestaInesperadaError", None, 1)
    ELSE IF ~IsObj(body) THEN LlmResult("raise", "AttributeError", None, 1)
    ELSE IF ~Truthy2(Get(body, "candidates"))
        THEN LlmResult("raise", "RespuestaInesperadaError", None, 1)
    ELSE LET candidatos == body.obj["candidates"] IN
    IF ~IsList(candidatos) \/ Len(candidatos.list) = 0
        THEN LlmResult("raise", "RespuestaInesperadaError", None, 1)
    ELSE LET candidato_principal == candidatos.list[1] IN
    IF ~IsObj(candidato_principal) \/ ~HasKey(candidato_principal, "content")
        THEN LlmResult("raise", "RespuestaInesperadaError", None, 1)
    ELSE LET contenido_candidato == candidato_principal.obj["content"] IN
    IF ~IsObj(contenido_candidato) \/ ~HasKey(contenido_candidato, "parts")
        THEN LlmResult("raise", "RespuestaInesperadaError", None, 1)
    ELSE LET partes_respuesta == contenido_candidato.obj["parts"] IN
    IF ~IsList(partes_respuesta) \/ Len(partes_respuesta.list) = 0
        THEN LlmResult("raise", "RespuestaInesperadaError", None, 1)
    ELSE LET primera_parte == partes_respuesta.list[1] IN
    IF ~IsObj(primera_parte) \/ ~HasKey(primera_parte, "text")
        THEN LlmResult("raise", "RespuestaInesperadaError", None, 1)
    ELSE LET texto_generado == primera_parte.obj["text"] IN
    IF ~IsStr(texto_generado)
        THEN LlmResult("raise", "RespuestaInesperadaError", None, 1)
    ELSE LlmResult("return", "none", Some(Strip(texto_generado.str)), 1)

\* interactuar_con_gemini(contenido, content_type_envio=...) with the key
\* of the environment and the network's answer to the request it posts.
InteractuarConGemini(key, net, contenido, content_type_envio) ==
    IF contenido = "" THEN LlmResult("raise", "ValueError", None, 0)
    ELSE IF content_type_envio \notin {CONTENT_TYPE_JSON, CONTENT_TYPE_TEXT}
        THEN LlmResult("raise", "TipoContenidoNoSoportadoError", None, 0)
    ELSE IF NotSet(key)
        THEN LlmResult("raise", "CredencialesInvalidasError", None, 0)
    ELSE IF net.kind \in {"Timeout", "ConnectionError", "RequestException"}
        THEN LlmResult("raise", "ErrorDeRedError", None, 1)
    ELSE IF net.status >= 400
        THEN IF net.status \in {401, 403}
             THEN LlmResult("raise", "CredencialesInvalidasError", None, 1)
             ELSE LlmResult("raise", "RespuestaInesperadaError", None, 1)
    ELSE ProcesarRespuesta(net.body)

\* get_api_key(): the key, or ValueError.
GetApiKey(key) ==
    IF NotSet(key) THEN [outcome |-> "raise", exc |-> "ValueError"]
    ELSE [outcome |-> "return", value |-> key[1]]

\* The answer llm_request extracts from the last document of a stream, or
\* the exception the extraction raises.
Extracted(exc, answer) == [exc |-> exc, answer |-> answer]
ExtraerRespuesta(response_json) ==
    IF ~IsList(response_json) \/ Len(response_json.list) = 0
        THEN Extracted("none", <<>>)
    ELSE LET last == response_json.list[Len(response_json.list)] IN
    IF ~Sized(last) THEN Extracted("TypeError", <<>>)
    ELSE IF ~HasKey(last, "candidates") THEN Extracted("none", <<>>)
    ELSE LET candidates == last.obj["candidates"] IN
    IF ~Sized(candidates) THEN Extracted("TypeError", <<>>)
    ELSE IF PyLen(candidates) = 0 THEN Extracted("none", <<>>)
    ELSE IF IsObj(candidates) THEN Extracted("KeyError", <<>>)
    ELSE LET candidate == First(candidates) IN
    IF ~Sized(candidate) THEN Extracted("TypeError", <<>>)
    ELSE IF ~HasKey(candidate, "content") THEN Extracted("none", <<>>)
    ELSE LET content == candidate.obj["content"] IN
    IF ~Sized(content) THEN Extracted("TypeError", <<>>)
    ELSE IF ~HasKey(content, "parts") THEN Extracted("none", <<>>)
    ELSE LET parts == content.obj["parts"] IN
    IF ~Sized(parts) THEN Extracted("TypeError", <<>>)
    ELSE IF PyLen(parts) = 0 THEN Extracted("none", <<>>)
    ELSE IF IsObj(parts) THEN Extracted("KeyError", <<>>)
    ELSE LET part == First(parts) IN
    IF ~Sized(part) THEN Extracted("TypeError", <<>>)
    ELSE IF ~HasKey(part, "text") THEN Extracted("none", <<>>)
    ELSE LET text == part.obj["text"] IN
    IF ~IsStr(text) THEN Extracted("AttributeError", <<>>)
    ELSE Extracted("none", Strip(text.str))

\* final_answer without a leading "=".
SinIgual(final_answer) ==
    IF final_answer # <<>> /\ final_answer[1] = "="
    THEN Strip(Tail(final_answer))
    ELSE final_answer

\* llm_request(prompt) with the default configuration: the document
\* {"response": answer} that json.dumps serialises, or None.
LlmRequest(key, net, prompt) ==
    IF GetApiKey(key).outcome = "raise" THEN LlmResult("return", "none", None, 0)
    ELSE IF net.kind \in {"Timeout", "ConnectionError", "RequestException"}
        THEN LlmResult("return", "none", None, 1)
    ELSE IF net.status >= 400 THEN LlmResult("return", "none", None, 1)
    ELSE IF net.body = NotJson THEN LlmResult("return", "none", None, 1)
    ELSE LET r == ExtraerRespuesta(net.body) IN
         IF r.exc # "none" THEN LlmResult("raise", r.exc, None, 1)
         ELSE LlmResult("return", "none",
                        Some(JObj("response" :> JStr(SinIgual(r.answer)))), 1)

Contenidos == {"", "hola"}
ContentTypes == {CONTENT_TYPE_JSON, CONTENT_TYPE_TEXT, "text/html"}
Keys == {None, Some(""), Some("k")}

LlmCallOf(op, contenido, content_type, r) ==
    [op |-> op, contenido |-> contenido, content_type |-> content_type,
     outcome |-> r.outcome, exc |-> r.exc, value |-> r.value, sent |-> r.sent]

(***************************************************************************)
(* The clients' specification: one environment, one network behaviour,     *)
(* and any client called in it                                             *)
(***************************************************************************)
InitLlm ==
    /\ AnalyserIdle
    /\ StoreIdle
    /\ FilesIdle
    /\ ObjIdle
    /\ lenv \in Keys
    /\ lnet \in Networks
    /\ lcall = NoLlmCall

CallInteractuarConGemini ==
    \E contenido \in Contenidos : \E content_type \in ContentTypes :
        /\ lcall' = LlmCallOf("interactuar_con_gemini", contenido, content_type,
                              InteractuarConGemini(lenv, lnet, contenido, content_type))
        /\ UNCHANGED <<aVars, jVars, rVars, fVars, lenv, lnet, oVars>>

CallLlmRequest ==
    \E prompt \in Contenidos :
        /\ lcall' = LlmCallOf("llm_request", prompt, CONTENT_TYPE_JSON,
                              LlmRequest(lenv, lnet, prompt))
        /\ UNCHANGED <<aVars, jVars, rVars, fVars, lenv, lnet, oVars>>

NextLlm == CallInteractuarConGemini \/ CallLlmRequest

SpecLlm == InitLlm /\ [][NextLlm]_vars


(***************************************************************************)
(* Claims about the Gemini clients                                         *)
(***************************************************************************)
\* The last client call passed interactuar_con_gemini's input validation.
ValidatedCall ==
    /\ lcall.op = "interactuar_con_gemini"
    /\ lcall.contenido # ""
    /\ lcall.content_type \in {CONTENT_TYPE_JSON, CONTENT_TYPE_TEXT}

\* The string at candidates[0].content.parts[0].text of a document, if any.
Under(v, key) == IF IsObj(v) /\ key \in DOMAIN v.obj THEN v.obj[key] ELSE JNull
At0(v) == IF IsList(v) /\ v.list # <<>> THEN v.list[1] ELSE JNull
DocText(d) ==
    LET t == Under(At0(Under(Under(At0(Under(d, "candidates")), "content"), "parts")),
                   "text")
    IN IF IsStr(t) THEN Some(t.str) ELSE None

KeyIsSet == lenv # None /\ lenv # Some("")
Answered == lnet.kind = "response" /\ lnet.status = 200

\* C13: once its arguments are validated, interactuar_con_gemini fails only
\* with CredencialesInvalidasError (no key, HTTP 401 or 403), ErrorDeRedError
\* (timeout, connection error) or RespuestaInesperadaError (any other HTTP
\* error status, a body that is not JSON, a JSON body of any shape without a
\* string at candidates[0].content.parts[0].text).
C13_FailuresAreOfThreeKinds ==
    ValidatedCall =>
        /\ lcall.outcome = "raise"
              => lcall.exc \in {"CredencialesInvalidasError", "ErrorDeRedError",
                                "RespuestaInesperadaError"}
        /\ (KeyIsSet /\ Answered /\ (lnet.body = NotJson \/ DocText(lnet.body) = None))
              => (lcall.outcome = "raise" /\ lcall.exc = "RespuestaInesperadaError")
        /\ (KeyIsSet /\ lnet.kind = "response" /\ lnet.status >= 400)
              => /\ lcall.outcome = "raise"
                 /\ lcall.exc = IF lnet.status \in {401, 403}
                                THEN "CredencialesInvalidasError"
                                ELSE "RespuestaInesperadaError"
        /\ (KeyIsSet /\ lnet.kind \in {"Timeout", "ConnectionError"})
              => (lcall.outcome = "raise" /\ lcall.exc = "ErrorDeRedError")
        /\ ~KeyIsSet
              => (lcall.outcome = "raise" /\ lcall.exc = "CredencialesInvalidasError")

\* C14: with GEMINI_API_KEY unset or empty neither client ever sends an HTTP
\* request: interactuar_con_gemini (its arguments being valid) raises
\* CredencialesInvalidasError and llm_request returns None.
C14_NoKeyNoRequest ==
    (lcall.op # "none" /\ lenv \in {None, Some("")}) =>
        /\ lcall.sent = 0
        /\ ValidatedCall
              => (lcall.outcome = "raise" /\ lcall.exc = "CredencialesInvalidasError")
        /\ lcall.op = "llm_request"
              => (lcall.outcome = "return" /\ lcall.value = None)

\* C14's case: the key is empty, the network would have answered, and
\* interactuar_con_gemini stopped at the credentials without a request.
C14_Witness ==
    /\ lenv = Some("")
    /\ Answered
    /\ ValidatedCall
    /\ lcall.exc = "CredencialesInvalidasError"
    /\ lcall.sent = 0

\* C15: in both clients, an HTTP 200 response whose JSON body has no text at
\* candidates[0].content.parts[0] is a failure (RespuestaInesperadaError from
\* interactuar_con_gemini) and never a normal answer.
C15_MissingTextIsFailure ==
    (/\ KeyIsSet /\ Answered /\ lnet.body # NotJson
     /\ ValidatedCall \/ lcall.op = "llm_request"
     /\ DocText(lnet.body) = None
     /\ DocText(At0(lnet.body)) = None)
        => /\ ~(lcall.outcome = "return" /\ lcall.value # None)
           /\ ValidatedCall
                 => (lcall.outcome = "raise" /\ lcall.exc = "RespuestaInesperadaError")


(***************************************************************************)
(* Signatures and class bodies: one definition whose parameters carry       *)
(* annotations and a docstring, or one class with statements in its body    *)
(***************************************************************************)
MaxWords == 3       \* words of a docstring
MaxStmts == 2       \* statements of a class body

TupleExpr(elts) == [kind |-> "Tuple", elts |-> elts]

\* No annotation, a name (int), a dotted name (m.T).
Annotations == {None, Some(NameExpr("int")), Some(AttributeExpr("m", "T"))}

AnnotatedArgs ==
    UNION { { [i \in 1..n |-> ArgOf(ParamOrder[i], ann[i])] :
                ann \in [1..n -> Annotations] } : n \in 0..Len(ParamOrder) }

Words == {ParamWord, NameWord("a", ""), NameWord("a", "int"), NameWord("b", ""),
          NameWord("ab", ""), PlainWord("str")}
Docstrings ==
    {None} \cup { Some(w) : w \in UNION { [1..n -> Words] : n \in 0..MaxWords } }

\* x = 1, y = 1, x = y = 1, x.y = 1, x = x.y = 1, and x, y = 1, 2.
TargetLists ==
    { <<NameExpr("x")>>, <<NameExpr("y")>>, <<NameExpr("x"), NameExpr("y")>>,
      <<AttributeExpr("x", "y")>>, <<NameExpr("x"), AttributeExpr("x", "y")>>,
      <<TupleExpr(<<NameExpr("x"), NameExpr("y")>>)>> }

\* The statements of a class body: an assignment, a method, an assignment
\* under an `if`.
ClassStatements ==
    { AssignOf(t) : t \in TargetLists }
    \cup { FunctionDefOf("f", ArgumentsOf(PlainArgs(1), <<>>), None, None, <<>>),
           IfOf(<<AssignOf(<<NameExpr("z")>>)>>, <<>>) }

InitSig ==
    /\ StoreIdle
    /\ FilesIdle
    /\ LlmIdle
    /\ ObjIdle
    /\ \/ \E args \in AnnotatedArgs : \E returns \in Annotations : \E doc \in Docstrings :
            source = TextOf(<<FunctionDefOf("f", ArgumentsOf(args, <<>>), returns, doc, <<>>)>>)
       \/ \E n \in 0..MaxStmts : \E body \in [1..n -> ClassStatements] :
            source = TextOf(<<ClassDefOf("C", <<>>, body)>>)
    /\ call = NoCall

NextSig == CallAnalizarCodigo

SpecSig == InitSig /\ [][NextSig]_vars

(***************************************************************************)
(* Claims about analizar_codigo's result                                   *)
(***************************************************************************)
NothingFound == [funciones |-> <<>>, clases |-> <<>>]

\* C16: for a language other than Python, analizar_codigo returns
\* {'funciones': [], 'clases': []} whatever the source text is.
C16_UnsupportedLanguageIsEmpty ==
    (call.op = "analizar_codigo" /\ call.arg # "python")
        => (call.outcome = "return" /\ call.value = NothingFound)

\* The methods of the source: the function definitions directly in a class body.
SourceMethods ==
    { m \in SourceDefs : \E c \in SourceClasses :
        \E i \in 1..Len(c.body) : c.body[i] = m }

\* C18: no method of a class is an entry of 'funciones' in analizar_codigo's
\* result; a method is listed in its class's 'metodos' only.
C18_MethodsAreNotFunciones ==
    (call.op = "analizar_codigo" /\ call.arg = "python" /\ call.outcome = "return")
        => \A i \in 1..Len(call.value.funciones) :
              ~\E m \in SourceMethods :
                  /\ m.name = call.value.funciones[i].nombre
                  /\ m.lineno = call.value.funciones[i].linea_inicio


\* The one class of the source and its entry in the last result.
OneClass ==
    /\ call.op = "analizar_codigo"
    /\ call.outcome = "return"
    /\ Cardinality(SourceClasses) = 1
    /\ Len(call.value.clases) = 1
TheClass == CHOOSE c \in SourceClasses : TRUE

RECURSIVE AllTargets(_)
\* The targets of the assignment statements directly in a body, in order.
AllTargets(body) ==
    IF body = <<>> THEN <<>>
    ELSE (IF Head(body).kind = "Assign" THEN Head(body).targets ELSE <<>>)
         \o AllTargets(Tail(body))
RECURSIVE SingleTargets(_)
\* The targets of the assignment statements with one target, in order.
SingleTargets(body) ==
    IF body = <<>> THEN <<>>
    ELSE (IF Head(body).kind = "Assign" /\ Len(Head(body).targets) = 1
          THEN Head(body).targets ELSE <<>>)
         \o SingleTargets(Tail(body))
IsName(e) == e.kind = "Name"
Ids(exprs) == [i \in 1..Len(exprs) |-> exprs[i].id]

\* C17 (as claimed): 'atributos' holds exactly the names assigned by the
\* single-target assignments directly in the class body, in order; a
\* multi-target assignment and an attribute-path assignment give no name.
C17_Original ==
    OneClass =>
        call.value.clases[1].atributos = Ids(SelectSeq(SingleTargets(TheClass.body), IsName))

\* C17 (amended): 'atributos' holds, in order, every plain-name target of every
\* assignment statement directly in the class body, each name of a multi-target
\* assignment included; attribute-path and tuple targets give no name.
C17_EveryNameTarget ==
    OneClass =>
        call.value.clases[1].atributos = Ids(SelectSeq(AllTargets(TheClass.body), IsName))

\* C17's case: the class body holds x = y = 1 and both names are attributes.
C17_Witness ==
    /\ OneClass
    /\ \E i \in 1..Len(TheClass.body) :
          /\ TheClass.body[i].kind = "Assign"
          /\ Len(TheClass.body[i].targets) = 2
    /\ call.value.clases[1].atributos = <<"x", "y">>

\* The one function of the source and its entry in the last result.
OneFunction ==
    /\ call.op = "analizar_codigo"
    /\ call.arg = "python"
    /\ call.outcome = "return"
    /\ Cardinality(SourceDefs) = 1
    /\ Len(call.value.funciones) = 1
TheFunction == CHOOSE d \in SourceDefs : TRUE

\* The text of an annotation of the sources drawn.
AnnotationText(e) == IF e = NameExpr("int") THEN "int" ELSE "m.T"

\* The positions of a docstring where ":param <name>:" stands followed by a type.
TagsOf(words, name) ==
    { i \in 1..(Len(words) - 1) :
        /\ words[i] = ParamWord
        /\ words[i + 1] \in {NameWord(name, ""), NameWord(name, "int")}
        /\ (words[i + 1].glued = "" => i + 2 <= Len(words)) }
\* The type token at such a position.
TypeAt(words, i) ==
    IF words[i + 1].glued # "" THEN words[i + 1].glued ELSE WordText(words[i + 2])

\* The type the priority of C19 gives parameter i of definition d.
ResolvedType(d, i) ==
    LET arg == d.args.args[i]
        tags == IF d.doc = None THEN {} ELSE TagsOf(d.doc[1], arg.arg)
    IN IF arg.annotation # None THEN AnnotationText(arg.annotation[1])
       ELSE IF tags # {}
            THEN TypeAt(d.doc[1], CHOOSE i0 \in tags : \A j \in tags : i0 <= j)
            ELSE "unknown"

\* C19: each parameter's type is its annotation's text when it has one (even
\* if the docstring has a ":param <name>:" tag for it), else the type token of
\* the first ":param <name>: <type>" of the docstring for exactly that name,
\* else 'unknown'; the return type is the return annotation's text, or 'None'.
C19_TypePriority ==
    OneFunction =>
        LET d == TheFunction
            entry == call.value.funciones[1]
        IN /\ Len(entry.parametros) = Len(d.args.args)
           /\ \A i \in 1..Len(d.args.args) :
                 entry.parametros[i]
                    = d.args.args[i].arg \o " (" \o ResolvedType(d, i) \o ")"
           /\ entry.tipo_retorno
                 = IF d.returns = None THEN "None" ELSE AnnotationText(d.returns[1])

\* C19's case: a is annotated m.T and tagged int in the docstring, b has
\* neither; the annotation wins for a and b is 'unknown'.
C19_Witness ==
    /\ OneFunction
    /\ Len(TheFunction.args.args) = 2
    /\ TheFunction.args.args[1].annotation = Some(AttributeExpr("m", "T"))
    /\ TheFunction.args.args[2].annotation = None
    /\ TheFunction.doc = Some(<<ParamWord, NameWord("a", "int")>>)
    /\ call.value.funciones[1].parametros = <<"a (m.T)", "b (unknown)">>


(***************************************************************************)
(* Claims about the store's input validation                               *)
(***************************************************************************)
\* A definition of the expected shape: a dictionary with exactly one key.
WellFormedRecord(r) == r.py = "dict" /\ Cardinality(DOMAIN r.val) = 1
\* nuevos_datos is no dictionary, or gives a file-key something that is not a
\* list, or a list with an element that is not such a definition.
Malformed(nuevos) ==
    \/ nuevos.py # "dict"
    \/ \E i \in 1..Len(nuevos.val) :
          \/ nuevos.val[i].value.py # "list"
          \/ \E j \in 1..Len(nuevos.val[i].value.val) :
                ~WellFormedRecord(nuevos.val[i].value.val[j])

\* C20: actualizar_archivo_json rejects malformed input with an error and
\* leaves the file as it was, whether or not the file-key is already in the
\* store.
C20_MalformedInputRejected ==
    (jcall.op = "actualizar" /\ Malformed(jcall.arg))
        => (jcall.outcome = "raise" /\ jfile = jcall.before)


(***************************************************************************)
(* The File object (src/src/file_manager.py): the file on disk is ffile,   *)
(* the object's attribute is ocontenido                                    *)
(***************************************************************************)
MaxObjLen == 2          \* characters in the file the object is built on
MaxCalls == 2           \* methods called on one object
MaxPrompts == 1         \* prompts of one actualizar_contenido call

\* What input() hands over for one prompt: the line read without its final
\* line feed, so it holds no LF but may hold a carriage return or another
\* character str.splitlines breaks a line at.
InputLines == {<<>>, <<"y">>, <<"y", "CR", "y">>, <<"y", "FF", "y">>}

IsTerminator(c) == c \in {"LF", "CR", "FF"}
NotTerminator(c) == ~IsTerminator(c)
\* str.splitlines(): the lines without their terminators.
PlainLines(text) ==
    LET kept == SplitLines(text, <<>>)
    IN [i \in 1..Len(kept) |-> SelectSeq(kept[i], NotTerminator)]

RECURSIVE JoinLF(_)
\* '\n'.join(lines)
JoinLF(lines) ==
    IF lines = <<>> THEN <<>>
    ELSE IF Len(lines) = 1 THEN lines[1]
    ELSE lines[1] \o <<"LF">> \o JoinLF(Tail(lines))

\* An index of a slice on a list of n elements, as Python bounds it.
SliceIndex(i, n) == IF i < 0 THEN Max2(i + n, 0) ELSE IF i > n THEN n ELSE i
\* lines[start:stop] = new
SliceAssign(lines, start, stop, new) ==
    LET a == SliceIndex(start, Len(lines))
        b == Max2(a, SliceIndex(stop, Len(lines)))
    IN SubSeq(lines, 1, a) \o new \o SubSeq(lines, b + 1, Len(lines))

\* File(path) on an existing file: contenido is the file read in text mode.
NewFile(file) == Translate(file.text)

\* Lines 87-96: the bounds after clamping against the lines of contenido, or
\* the ValueError for a linea_final below linea_inicial.
ClampRange(total, linea_inicial, linea_final) ==
    LET beyond == linea_inicial # None /\ linea_inicial[1] > 0 /\ linea_inicial[1] > total
        inicial == IF linea_inicial = None \/ linea_inicial[1] <= 0 THEN 1
                   ELSE IF beyond THEN total ELSE linea_inicial[1]
        final == IF beyond THEN None ELSE linea_final
    IN IF final = None \/ final[1] > total
       THEN [ok |-> TRUE, inicial |-> inicial, final |-> total]
       ELSE IF final[1] < inicial
       THEN [ok |-> FALSE, inicial |-> inicial, final |-> final[1]]
       ELSE [ok |-> TRUE, inicial |-> inicial, final |-> final[1]]

\* range(linea_inicial - 1, linea_final), as the line numbers the prompts show.
PromptedLines(inicial, final) ==
    [k \in 1..Max2(final - inicial + 1, 0) |-> inicial + k - 1]

\* io.open(self.path, 'w'): the file is emptied when it is opened.
Truncated(file) == TextFile(<<>>)

\* The end of the `with` block: the text f.write buffered is written from the
\* start of the file, over what the file holds by then (nothing, unless
\* another call wrote since this one opened the file).
Closed(file, text) ==
    TextFile(text \o SubSeq(file.text, Len(text) + 1, Len(file.text)))

\* Lines 111-115: the answers take the place of the range in the lines read
\* from the file, and the lines are joined with line feeds.
Updated(lineas_archivo, inicial, final, answers) ==
    JoinLF(SliceAssign(lineas_archivo, inicial - 1, final, answers))

\* The calls that have ended, and whether a call is under way.
Ended == IF ocall.op = "none" THEN 0 ELSE ocall.calls
Waiting == owait # <<>>

\* A call under way: its method and arguments, where it stands (pc: "read"
\* before line 99, "input" in line 108, "open" before the io.open(.., 'w'),
\* "close" inside the `with` block, "assign" before self.contenido = ..),
\* the locals linea_inicial, linea_final and lineas_archivo, the answers
\* input() gave so far, the text it writes, the file when it began, and
\* whether no other call was under way at any time since.
UnderWay(op, lo, hi, pc, inicial, final, text, before, alone) ==
    [op |-> op, lo |-> lo, hi |-> hi, pc |-> pc, inicial |-> inicial,
     final |-> final, lineas_archivo |-> <<>>, answers |-> <<>>, text |-> text,
     before |-> before, alone |-> alone]

\* The texts a call was given: the new content, or the answers of input().
TextsOf(w) ==
    CASE w.op = "reescribir_contenido" -> <<w.text>>
      [] w.op = "actualizar_contenido" -> w.answers
      [] OTHER -> <<>>

\* The record of a call that ended: its arguments, the texts it was given,
\* the file when it began, whether it ran alone, how it ended and the line
\* numbers it prompted for.
ObjCallOf(w, outcome, exc, prompts) ==
    [op |-> w.op, lo |-> w.lo, hi |-> w.hi, texts |-> TextsOf(w),
     before |-> w.before, alone |-> w.alone, outcome |-> outcome, exc |-> exc,
     prompts |-> prompts, calls |-> Ended + 1]

(***************************************************************************)
(* The File object's specification: an object built on an existing file,   *)
(* then its methods in any order; nobody else touches the file.  A method  *)
(* is not one step: a call of another thread can run between any two of    *)
(* its accesses to the file and to self.contenido, and while it waits in   *)
(* input().  owait lists the calls under way in the order they began; a    *)
(* caller that waits for each call to end before the next sees them one    *)
(* after the other (alone).                                                *)
(***************************************************************************)
InitObj ==
    /\ AnalyserIdle
    /\ StoreIdle
    /\ LlmIdle
    /\ \E text \in Texts(MaxObjLen) :
          /\ ffile = TextFile(text)
          /\ ocontenido = NewFile(TextFile(text))
    /\ fcall = NoFileCall
    /\ ocall = NoObjCall
    /\ owait = NoWait

MoreCalls == Ended + Len(owait) < MaxCalls

\* What a call that begins does to the calls under way: they no longer run
\* alone.
Overtaken(waiting) == [i \in 1..Len(waiting) |-> [waiting[i] EXCEPT !.alone = FALSE]]

\* The calls under way without the k-th.
Resumed(waiting, k) == SubSeq(waiting, 1, k - 1) \o SubSeq(waiting, k + 1, Len(waiting))

\* borrar_contenido() up to the end of line 62: the file is open and empty.
CallBorrarContenido ==
    /\ MoreCalls
    /\ ffile' = Truncated(ffile)
    /\ owait' = Append(Overtaken(owait),
                       UnderWay("borrar_contenido", None, None, "close", 0, 0, <<>>,
                               ffile, owait = <<>>))
    /\ UNCHANGED <<aVars, jVars, rVars, fcall, lVars, ocontenido, ocall>>

\* reescribir_contenido(nuevo_contenido) up to the end of line 140.
CallReescribirContenido ==
    /\ MoreCalls
    /\ \E nuevo_contenido \in Texts(MaxTextLen) :
          owait' = Append(Overtaken(owait),
                          UnderWay("reescribir_contenido", None, None, "close", 0, 0,
                                  nuevo_contenido, ffile, owait = <<>>))
    /\ ffile' = Truncated(ffile)
    /\ UNCHANGED <<aVars, jVars, rVars, fcall, lVars, ocontenido, ocall>>

\* actualizar_contenido(linea_inicial, linea_final), lines 84-96: the bounds
\* are clamped against the lines of self.contenido.  It ends here with the
\* ValueError, else it goes on to read the file.
CallActualizarContenido ==
    /\ MoreCalls
    /\ \E linea_inicial \in LineArgs, linea_final \in LineArgs :
          LET c == ClampRange(Len(PlainLines(ocontenido)), linea_inicial, linea_final)
              asked == IF c.ok THEN Len(PromptedLines(c.inicial, c.final)) ELSE 0
              w == UnderWay("actualizar_contenido", linea_inicial, linea_final, "read",
                           c.inicial, c.final, <<>>, ffile, owait = <<>>)
          IN /\ asked <= MaxPrompts
             /\ IF c.ok
                THEN /\ owait' = Append(Overtaken(owait), w)
                     /\ UNCHANGED ocall
                ELSE /\ owait' = Overtaken(owait)
                     /\ ocall' = ObjCallOf(w, "raise", "ValueError", <<>>)
    /\ UNCHANGED <<aVars, jVars, rVars, ffile, fcall, lVars, ocontenido>>

\* Lines 99-107 of a call under way: it reads the file and splits it into
\* lines; with no line to prompt for it goes on to write them back.
ReadFile ==
    /\ \E k \in 1..Len(owait) :
          LET w == owait[k]
              asked == Len(PromptedLines(w.inicial, w.final))
              lineas_archivo == PlainLines(Translate(ffile.text))
          IN /\ w.pc = "read"
             /\ owait' = [owait EXCEPT
                   ![k].lineas_archivo = lineas_archivo,
                   ![k].pc = IF asked = 0 THEN "open" ELSE "input",
                   ![k].text = IF asked = 0
                               THEN Updated(lineas_archivo, w.inicial, w.final, <<>>)
                               ELSE <<>>]
    /\ UNCHANGED <<aVars, jVars, rVars, ffile, fcall, lVars, ocontenido, ocall>>

\* input() returns a line to a call that waits: lines 108-109, and after its
\* last prompt lines 111-115, which put the answers into the lines the call
\* read before it waited.
AnswerInput ==
    /\ \E k \in 1..Len(owait) : \E answer \in InputLines :
          LET w == owait[k]
              answers == Append(w.answers, answer)
              asked == Len(PromptedLines(w.inicial, w.final))
          IN /\ w.pc = "input"
             /\ owait' = IF Len(answers) < asked
                         THEN [owait EXCEPT ![k].answers = answers]
                         ELSE [owait EXCEPT
                                 ![k].answers = answers,
                                 ![k].pc = "open",
                                 ![k].text = Updated(w.lineas_archivo, w.inicial,
                                                     w.final, answers)]
    /\ UNCHANGED <<aVars, jVars, rVars, ffile, fcall, lVars, ocontenido, ocall>>

\* input() finds the end of the input in a call that waits: its EOFError
\* leaves as the IOError of lines 126-127 (an OSError), before anything is
\* written.
EndOfInput ==
    /\ \E k \in 1..Len(owait) :
          LET w == owait[k]
              shown == SubSeq(PromptedLines(w.inicial, w.final), 1, Len(w.answers) + 1)
          IN /\ w.pc = "input"
             /\ ocall' = ObjCallOf(w, "raise", "OSError", shown)
             /\ owait' = Resumed(owait, k)
    /\ UNCHANGED <<aVars, jVars, rVars, ffile, fcall, lVars, ocontenido>>

\* Line 118 of an actualizar_contenido under way: the file is opened for
\* writing, which empties it.
OpenToWrite ==
    /\ \E k \in 1..Len(owait) :
          /\ owait[k].pc = "open"
          /\ owait' = [owait EXCEPT ![k].pc = "close"]
    /\ ffile' = Truncated(ffile)
    /\ UNCHANGED <<aVars, jVars, rVars, fcall, lVars, ocontenido, ocall>>

\* The `with` block of a call under way ends (lines 62-63, 118-119, 140-141):
\* the text it wrote reaches the file.
CloseFile ==
    /\ \E k \in 1..Len(owait) :
          /\ owait[k].pc = "close"
          /\ ffile' = Closed(ffile, owait[k].text)
          /\ owait' = [owait EXCEPT ![k].pc = "assign"]
    /\ UNCHANGED <<aVars, jVars, rVars, fcall, lVars, ocontenido, ocall>>

\* self.contenido = ... (lines 64, 122, 142), and the call returns.
SetContenido ==
    /\ \E k \in 1..Len(owait) :
          LET w == owait[k] IN
          /\ w.pc = "assign"
          /\ ocontenido' = w.text
          /\ ocall' = ObjCallOf(w, "return", "none",
                                IF w.op = "actualizar_contenido"
                                THEN PromptedLines(w.inicial, w.final) ELSE <<>>)
          /\ owait' = Resumed(owait, k)
    /\ UNCHANGED <<aVars, jVars, rVars, ffile, fcall, lVars>>

NextObj ==
    \/ CallBorrarContenido
    \/ CallReescribirContenido
    \/ CallActualizarContenido
    \/ ReadFile
    \/ AnswerInput
    \/ EndOfInput
    \/ OpenToWrite
    \/ CloseFile
    \/ SetContenido

SpecObj == InitObj /\ [][NextObj]_vars

(***************************************************************************)
(* Claims about the File object                                            *)
(***************************************************************************)
\* The lines of a file as a reader of it gets them.
DiskLines(file) == PlainLines(Translate(file.text))

\* The first and the last line of the range the documentation describes, for
\* a file of n lines.
RangeStart(n, lo) ==
    IF lo = None THEN 1 ELSE IF lo[1] <= 0 THEN 1 ELSE IF lo[1] > n THEN n ELSE lo[1]
RangeEnd(n, lo, hi) ==
    IF lo # None /\ lo[1] > n THEN n
    ELSE IF hi = None THEN n ELSE IF hi[1] > n THEN n ELSE hi[1]
\* The call asks for a range: its linea_final, when it counts, is not below
\* its linea_inicial.
AsksRange(n, lo, hi) ==
    IF lo # None /\ lo[1] > n THEN TRUE
    ELSE IF hi = None THEN TRUE ELSE IF hi[1] > n THEN TRUE
    ELSE hi[1] >= RangeStart(n, lo)

\* C21: actualizar_contenido replaces exactly the clamped range of lines: when
\* every prompt was answered and the call ran alone, it returns, has
\* prompted once for each line of the range in ascending order, the file has
\* as many lines as before, the lines of the range hold the answers and every
\* other line is what it was; for an empty file too.
C21_ReplacesClampedRange ==
    LET old == DiskLines(ocall.before)
        new == DiskLines(ffile)
        n == Len(old)
        a == RangeStart(n, ocall.lo)
        b == RangeEnd(n, ocall.lo, ocall.hi)
    IN (ocall.op = "actualizar_contenido" /\ ocall.alone /\ ocall.exc # "OSError"
           /\ AsksRange(n, ocall.lo, ocall.hi)) =>
          /\ ocall.outcome = "return"
          /\ ocall.prompts = [k \in 1..Max2(b - a + 1, 0) |-> a + k - 1]
          /\ Len(new) = n
          /\ \A i \in 1..n :
                new[i] = IF i >= a /\ i <= b THEN ocall.texts[i - a + 1] ELSE old[i]

\* C28: after any calls on the object, whether each returned or raised, the
\* attribute contenido is the content of the file on disk, once no call is
\* under way.
C28_ContenidoEqualsDisk ==
    (ocall.op # "none" /\ ~Waiting) => ocontenido = ffile.text

(***************************************************************************)
(* Claims about the order of the function entries                          *)
(***************************************************************************)
RECURSIVE NodesIn(_)
\* The nodes of a parsed statement list, at any depth: the statements and the
\* except clauses.
NodesIn(body) ==
    IF body = <<>> THEN {}
    ELSE {Head(body)} \cup NodesIn(Children(Head(body))) \cup NodesIn(Tail(body))
SourceNodes ==
    IF source.parse = "ok" THEN NodesIn(Parse(source).body) ELSE {}

\* The depth in the syntax tree of the node starting on each line: the number
\* of nodes below the module that enclose it, which are the nodes whose header
\* comes before that line and whose last line does not.  An enclosing def,
\* class, for or if is one node; so is the if an elif stands for; a try and
\* the except clause in it are two.
Depths ==
    LET nodes == SourceNodes
    IN [line \in { n.lineno : n \in nodes } |->
          Cardinality({ s \in nodes : s.lineno < line /\ line <= s.end_lineno })]
DepthOf(line) == Depths[line]

\* C22 (as claimed): the function entries appear in ascending start line, which
\* is what a pre-order traversal gives.
C22_Original ==
    \A i, j \in 1..Len(Entries) : i < j => Entries[i].line < Entries[j].line

\* C22 (amended): the function entries appear breadth first: by depth in the
\* syntax tree, and by ascending start line among the functions of one depth;
\* each entry is a function definition of the text and none is listed twice.
C22_BreadthFirstOrder ==
    LET entries == Entries
        defs == SourceDefs
        depths == Depths
    IN /\ \A i \in 1..Len(entries) :
             \E d \in defs : d.name = entries[i].name /\ d.lineno = entries[i].line
       /\ \A i, j \in 1..Len(entries) :
             i < j =>
                \/ depths[entries[i].line] < depths[entries[j].line]
                \/ /\ depths[entries[i].line] = depths[entries[j].line]
                   /\ entries[i].line < entries[j].line

\* A function in an except clause, two nodes deep (the try and the clause),
\* is listed after the function that follows the try in the text.
C22_Witness ==
    /\ call.op = "analizar_codigo"
    /\ call.outcome = "return"
    /\ \E t \in SourceNodes : t.kind = "Try" /\ t.lineno = 1 /\ t.end_lineno = 5
    /\ Len(Entries) = 2
    /\ Entries[1].line = 6
    /\ Entries[2].line = 4
    /\ DepthOf(4) = 2
    /\ DepthOf(6) = 0

(***************************************************************************)
(* Claims about what a merge leaves in the store and in its argument       *)
(***************************************************************************)
\* nuevos_datos is well formed: a dictionary of lists of single-key records.
WellFormed(nuevos) == ~Malformed(nuevos)

\* No list of the file holds two records with the same function name.
NoDuplicates(file) ==
    \A key \in DOMAIN DataOf(file) : \A nombre \in FuncKeys : Count(file, key, nombre) <= 1

\* The list names no function twice.
Distinct(value) ==
    \A nombre \in FuncKeys : Cardinality(Holders(value.val, nombre)) <= 1

\* The lists nuevos_datos supplies for file-keys the file does not hold name
\* no function twice.
FreshListsDistinct(file, nuevos) ==
    \A i \in 1..Len(nuevos.val) :
        nuevos.val[i].key \notin DOMAIN DataOf(file) => Distinct(nuevos.val[i].value)

\* A call with well-formed input returned.
MergedWellFormed ==
    /\ jcall.op = "actualizar"
    /\ jcall.outcome = "return"
    /\ WellFormed(jcall.arg)

\* C23 (as claimed): from an absent or empty store, after successful calls with
\* well-formed input no file-key's list holds two records with the same
\* function name.
C23_Original ==
    (MergedWellFormed /\ DataOf(jcall.start) = <<>>) => NoDuplicates(jfile)

\* C23 (amended): a successful call with well-formed input whose lists for
\* file-keys the store does not hold yet name no function twice keeps a store
\* without duplicate function names without them.
C23_MergeAddsNoDuplicate ==
    (MergedWellFormed /\ NoDuplicates(jcall.before)
        /\ FreshListsDistinct(jcall.before, jcall.arg))
        => NoDuplicates(jfile)

\* C23's case: a list naming one function twice was merged under a file-key
\* that held no record of it, and the store has one record for the function.
C23_Witness ==
    /\ MergedWellFormed
    /\ NoDuplicates(jcall.before)
    /\ FreshListsDistinct(jcall.before, jcall.arg)
    /\ \E i \in 1..Len(jcall.arg.val) : \E nombre \in FuncKeys :
          /\ Cardinality(Holders(jcall.arg.val[i].value.val, nombre)) = 2
          /\ Count(jcall.before, jcall.arg.val[i].key, nombre) = 0
          /\ Count(jfile, jcall.arg.val[i].key, nombre) = 1


\* The records of the list that name the same function are equal.
Agreeing(value) ==
    \A a, b \in 1..Len(value.val) :
        DOMAIN value.val[a].val = DOMAIN value.val[b].val => value.val[a] = value.val[b]

\* The lists nuevos_datos supplies for file-keys the file does not hold give
\* no function two different details.
FreshListsAgree(file, nuevos) ==
    \A i \in 1..Len(nuevos.val) :
        nuevos.val[i].key \notin DOMAIN DataOf(file) => Agreeing(nuevos.val[i].value)

\* C24 (as claimed): for every store and every well-formed nuevos_datos, the
\* store after merging it twice equals the store after merging it once.
C24_Original ==
    (MergedTwice /\ WellFormed(jcall.arg)) => jfile = jcall.before

\* C24 (amended): the store after merging a well-formed nuevos_datos twice
\* equals the store after merging it once, unless its list for a file-key the
\* store did not hold gives one function name two different details.
C24_MergeTwiceIsMergeOnce ==
    (MergedTwice /\ WellFormed(jcall.arg) /\ FreshListsAgree(jcall.start, jcall.arg))
        => jfile = jcall.before

\* C24's case: a list giving one function two different details was merged
\* twice under a file-key the store held; the first merge changed the store
\* and the second left it as the first had.
C24_Witness ==
    /\ MergedTwice
    /\ WellFormed(jcall.arg)
    /\ jfile = jcall.before
    /\ jfile # jcall.start
    /\ \E i \in 1..Len(jcall.arg.val) :
          /\ jcall.arg.val[i].key \in DOMAIN DataOf(jcall.start)
          /\ \E a, b \in 1..Len(jcall.arg.val[i].value.val) :
                /\ DOMAIN jcall.arg.val[i].value.val[a].val
                     = DOMAIN jcall.arg.val[i].value.val[b].val
                /\ jcall.arg.val[i].value.val[a] # jcall.arg.val[i].value.val[b]


\* C25: actualizar_archivo_json never modifies its argument: when the call
\* has returned or raised, nuevos_datos and every record in it are what they
\* were when the call began.
C25_ArgumentUntouched ==
    jcall.op = "actualizar" => jcall.argAfter = jcall.arg


\* The file-keys nuevos_datos names, and the list it gives one of them.
ArgKeys(nuevos) == { nuevos.val[i].key : i \in 1..Len(nuevos.val) }
ListFor(nuevos, key) ==
    (CHOOSE it \in { nuevos.val[i] : i \in 1..Len(nuevos.val) } : it.key = key).value.val

\* The function names the records of a list have as keys.
NamesIn(defs) ==
    UNION { IF defs[j].py = "dict" THEN DOMAIN defs[j].val ELSE {} : j \in 1..Len(defs) }

\* The record has none of the names as a key.
Unnamed(record, names) ==
    IF record.py = "dict" THEN DOMAIN record.val \cap names = {} ELSE TRUE

\* C26: a successful call leaves alone what it was not asked to touch: a
\* file-key absent from nuevos_datos keeps its value, and under a merged
\* file-key every existing record whose function name is not in the new list
\* keeps its content and its position.
C26_RestUntouched ==
    (jcall.op = "actualizar" /\ jcall.outcome = "return") =>
        \A key \in DOMAIN DataOf(jcall.before) :
            /\ jfile.file = "json"
            /\ key \in DOMAIN jfile.data
            /\ IF key \notin ArgKeys(jcall.arg)
               THEN jfile.data[key] = jcall.before.data[key]
               ELSE LET old == jcall.before.data[key].val
                        new == jfile.data[key].val
                    IN /\ Len(new) >= Len(old)
                       /\ \A idx \in 1..Len(old) :
                             Unnamed(old[idx], NamesIn(ListFor(jcall.arg, key)))
                                => new[idx] = old[idx]

\* C26's case: the store held a file-key the call did not name, and under a
\* file-key it did name one record the new list updated and one it did not
\* name.
C26_Witness ==
    /\ jcall.op = "actualizar"
    /\ jcall.outcome = "return"
    /\ DOMAIN DataOf(jcall.before) \ ArgKeys(jcall.arg) # {}
    /\ \E key \in DOMAIN DataOf(jcall.before) \cap ArgKeys(jcall.arg) :
          LET old == jcall.before.data[key].val
              new == jfile.data[key].val
          IN \E a, b \in 1..Len(old) :
                /\ Unnamed(old[a], NamesIn(ListFor(jcall.arg, key)))
                /\ old[a].py = "dict"
                /\ new[a] = old[a]
                /\ new[b] # old[b]

\* The call raised for one of the reasons the claim names: an invalid input
\* shape (no dictionary, a value that is no list, an element that is no
\* single-key dictionary), an unreadable file, or a stored entry that is no
\* list.
RaisedBeforeWriting ==
    /\ jcall.op = "actualizar"
    /\ jcall.outcome = "raise"
    /\ jcall.why \in {"not_dict", "not_list", "element", "read", "entry"}

\* C27: when actualizar_archivo_json raises because of an invalid input shape
\* or an unreadable or non-list existing store entry, the file is exactly
\* what it was before the call, also when file-keys of the call had been
\* merged in memory before the one that failed.
C27_RaiseLeavesFile ==
    RaisedBeforeWriting => jfile = jcall.before

\* C27's case: the first file-key of nuevos_datos was merged and changed the
\* document in memory, the second was refused because the store holds no
\* list for it, and the file is as before.
C27_Witness ==
    /\ RaisedBeforeWriting
    /\ jcall.why = "entry"
    /\ Len(jcall.arg.val) = 2
    /\ jcall.before.file = "json"
    /\ MergeKey(jcall.before.data, jcall.arg.val[1]).ok
    /\ MergeKey(jcall.before.data, jcall.arg.val[1]).data # jcall.before.data
    /\ jcall.before.data[jcall.arg.val[2].key].py # "list"
    /\ jfile = jcall.before

=============================================================================
